---- MODULE Spec2Model ----
(***************************************************************************)
(* A model of the `persistent` crate: the order-maintenance version list   *)
(* (version.rs), the persistent cell (cell.rs), the persistent vector      *)
(* (vec.rs), the persistent doubly-linked list (lib.rs) and the link       *)
(* fabric with its binary search tree client (link.rs, binary_tree.rs).    *)
(*                                                                         *)
(* Heap objects live in arenas (sequences); a pointer is an index into the *)
(* arena, None is 0.  A u64 is kept at its full width as four 16-bit limbs, *)
(* least significant first, because the labels of the version list use the *)
(* whole 64-bit range and wrap around it.                                  *)
(***************************************************************************)
EXTENDS Integers, Sequences, FiniteSets, TLC

VARIABLES
    nodes,            \* arena of VersionNode {parent, next, value}
    supers,           \* arena of VersionSuperNode {parent, next, size, value, list}
    vlist,            \* the VersionList {size, base}
    overflow_checks,  \* build profile: TRUE = arithmetic overflow panics, FALSE = it wraps
    aborted,          \* the process has panicked
    passes,           \* ghost: number of renumber passes run so far
    order,            \* harness: the versions in canonical order (version_test's version_list)
    returned,         \* harness: the versions in the order the calls returned them
    call,             \* harness: the last insert_after call, [from, ret]
    remaining,        \* harness: the calls the test loop has still to make
    versions,         \* the Version values handed out, [primary, secondary]
    cells,            \* the PersistentCells: each a BTreeMap PartialVersion -> OwnedOrPointer
    boxes,            \* heap of Box<T>: the values owned by the cells
    history,          \* ghost: per Version, the version it was inserted after and by what
    snapshot,         \* ghost: what every read returned just before the last call
    lnodes,           \* arena of PersistentLinkedListInner {value, next, prev, copy}
    lists,            \* the PersistenLinkedList values handed out, [value, version]
    lghost,           \* ghost: [raced, diverged] of the list operations run so far,
                      \* and the nodes before and the set_ptr calls of the last one
    tnodes,           \* arena of binary_tree::Node {link_container, value, copy}
    stack,            \* the call stack of Node::add: one frame per call in progress
    ret,              \* the value the last add returned, [node, link]
    tghost,           \* ghost: the keys insert was called with, and at which Version
    vec               \* the persistent Vec's length cell and its boxes, [len, len_boxes]

verVars == <<nodes, supers, vlist, passes>>
harnessVars == <<order, returned, call, remaining>>
cellVars == <<versions, cells, boxes, history, snapshot>>
listVars == <<lnodes, lists, lghost>>
linkVars == <<tnodes, stack, ret, tghost, vec>>
vars == <<nodes, supers, vlist, overflow_checks, aborted, passes, order, returned, call,
          remaining, versions, cells, boxes, history, snapshot, lnodes, lists, lghost,
          tnodes, stack, ret, tghost, vec>>

None == 0
Dangling == 0 - 1

\* `let x = value; body`: the value is computed once and handed to the body.
With(value, body(_)) == body(value)

(***************************************************************************)
(* u64 arithmetic on limbs.                                                *)
(***************************************************************************)
LIMB == 256 * 256

U64Zero == <<0, 0, 0, 0>>
U64One == <<1, 0, 0, 0>>
U64Max == <<LIMB - 1, LIMB - 1, LIMB - 1, LIMB - 1>>

\* A small natural number (below 2^31) as a u64.
U64FromSmall(n) == <<n % LIMB, (n \div LIMB) % LIMB, 0, 0>>

U64Lt(a, b) ==
    IF a[4] # b[4] THEN a[4] < b[4]
    ELSE IF a[3] # b[3] THEN a[3] < b[3]
    ELSE IF a[2] # b[2] THEN a[2] < b[2]
    ELSE a[1] < b[1]

WrappingAdd(a, b) ==
    LET s1 == a[1] + b[1]
        s2 == a[2] + b[2] + (s1 \div LIMB)
        s3 == a[3] + b[3] + (s2 \div LIMB)
        s4 == a[4] + b[4] + (s3 \div LIMB)
    IN  <<s1 % LIMB, s2 % LIMB, s3 % LIMB, s4 % LIMB>>

WrappingSub(a, b) ==
    LET d1 == a[1] - b[1]
        d2 == a[2] - b[2] - (IF d1 < 0 THEN 1 ELSE 0)
        d3 == a[3] - b[3] - (IF d2 < 0 THEN 1 ELSE 0)
        d4 == a[4] - b[4] - (IF d3 < 0 THEN 1 ELSE 0)
    IN  <<d1 % LIMB, d2 % LIMB, d3 % LIMB, d4 % LIMB>>

\* A halving that rounds down: floor(a / 2).
DivFloor2(a) ==
    <<((a[2] % 2) * LIMB + a[1]) \div 2, ((a[3] % 2) * LIMB + a[2]) \div 2,
      ((a[4] % 2) * LIMB + a[3]) \div 2, a[4] \div 2>>

\* u64::div_ceil(2): floor(a / 2) + (a mod 2).
DivCeil2(a) ==
    LET q4 == a[4] \div 2
        q3 == ((a[4] % 2) * LIMB + a[3]) \div 2
        q2 == ((a[3] % 2) * LIMB + a[2]) \div 2
        q1 == ((a[2] % 2) * LIMB + a[1]) \div 2
    IN  WrappingAdd(<<q1, q2, q3, q4>>, <<a[1] % 2, 0, 0, 0>>)

\* a / j for a small divisor j (0 < j < 2^15).
DivSmall(a, j) ==
    LET r4 == a[4] % j
        n3 == r4 * LIMB + a[3]
        n2 == (n3 % j) * LIMB + a[2]
        n1 == (n2 % j) * LIMB + a[1]
    IN  <<n1 \div j, n2 \div j, n3 \div j, a[4] \div j>>

\* a * i for a small factor i (0 <= i < 2^15), low 64 bits.
MulSmall(a, i) ==
    LET p1 == a[1] * i
        p2 == a[2] * i + (p1 \div LIMB)
        p3 == a[3] * i + (p2 \div LIMB)
        p4 == a[4] * i + (p3 \div LIMB)
    IN  <<p1 % LIMB, p2 % LIMB, p3 % LIMB, p4 % LIMB>>

(***************************************************************************)
(* version.rs: the order-maintenance list.                                 *)
(***************************************************************************)
SPLIT_SIZE == 64
HALF_SIZE == 32
LAST_INDEX == 31

\* const VALUE: u64 = 1 << 32, times a small index.
VALUE(index) == <<0, 0, index, 0>>

\* The heap of one version list, as the operators below pass it along.
Heap == [nodes |-> nodes, supers |-> supers, vlist |-> vlist, panic |-> FALSE,
         passes |-> passes]

\* PartialVersion::new(): one node, one super-node that is its own successor.
PartialVersionNew ==
    [nodes |-> <<[parent |-> 1, next |-> None, value |-> U64Zero]>>,
     supers |-> <<[parent |-> 1, next |-> 1, size |-> 1, value |-> U64Zero, list |-> 1]>>,
     vlist |-> [size |-> 1, base |-> 1],
     panic |-> FALSE,
     passes |-> 0]

\* A split_tail that relabels the second half of the group but leaves its nodes with
\* their old super-node.
RECURSIVE split_tail_keeps_parent(_, _, _, _)
split_tail_keeps_parent(ns, this, index, new_parent) ==
    LET ns1 == [ns EXCEPT ![this].value = VALUE(index)]
        next == ns[this].next
    IN  IF index < LAST_INDEX
        THEN IF next = None
             THEN [nodes |-> ns1, panic |-> TRUE]
             ELSE split_tail_keeps_parent(ns1, next, index + 1, new_parent)
        ELSE [nodes |-> ns1, panic |-> FALSE]

\* A split_tail that moves the second half of the group to the new super-node but
\* leaves its first node with the old one.
RECURSIVE split_tail_skips_first(_, _, _, _)
split_tail_skips_first(ns, this, index, new_parent) ==
    LET ns1 == [ns EXCEPT ![this].value = VALUE(index),
                          ![this].parent = IF index = 0 THEN @ ELSE new_parent]
        next == ns[this].next
    IN  IF index < LAST_INDEX
        THEN IF next = None
             THEN [nodes |-> ns1, panic |-> TRUE]
             ELSE split_tail_skips_first(ns1, next, index + 1, new_parent)
        ELSE [nodes |-> ns1, panic |-> FALSE]

RECURSIVE split_tail(_, _, _, _)
split_tail(ns, this, index, new_parent) ==
    LET ns1 == [ns EXCEPT ![this].value = VALUE(index), ![this].parent = new_parent]
        next == ns[this].next
    IN  IF index < LAST_INDEX
        THEN IF next = None
             THEN [nodes |-> ns1, panic |-> TRUE]
             ELSE split_tail(ns1, next, index + 1, new_parent)
        ELSE [nodes |-> ns1, panic |-> FALSE]

RECURSIVE split(_, _, _, _)
split(ns, this, index, new_parent) ==
    LET ns1 == [ns EXCEPT ![this].value = VALUE(index)]
        next == ns[this].next
    IN  IF next = None
        THEN [nodes |-> ns1, ret |-> None, panic |-> TRUE]
        ELSE IF index = LAST_INDEX
        THEN LET t == split_tail(ns1, next, 0, new_parent)
             IN  IF t.panic
                 THEN [nodes |-> t.nodes, ret |-> None, panic |-> TRUE]
                 ELSE [nodes |-> [t.nodes EXCEPT ![this].next = None],
                       ret |-> next, panic |-> FALSE]
        ELSE split(ns1, next, index + 1, new_parent)

\* A walk of renumber that stops at the second super-node after the start.
renumber_walk_pair(ss, this_value, next, j) ==
    [j |-> 2, current_value |-> ss[ss[next].next].value]

\* A walk of renumber that goes on while the distance is below j.
RECURSIVE renumber_walk_linear(_, _, _, _)
renumber_walk_linear(ss, this_value, next, j) ==
    IF U64Lt(WrappingSub(ss[next].value, this_value), U64FromSmall(j))
    THEN renumber_walk_linear(ss, this_value, ss[next].next, j + 1)
    ELSE [j |-> j, current_value |-> ss[next].value]

\* The while loop of renumber: walk the ring while the distance is below j * j.
RECURSIVE renumber_walk(_, _, _, _)
renumber_walk(ss, this_value, next, j) ==
    IF U64Lt(WrappingSub(ss[next].value, this_value), U64FromSmall(j * j))
    THEN renumber_walk(ss, this_value, ss[next].next, j + 1)
    ELSE [j |-> j, current_value |-> ss[next].value]

\* A for loop of renumber that gives every super-node of the arc the first label.
RECURSIVE renumber_assign_unspaced(_, _, _, _, _, _)
renumber_assign_unspaced(ss, current, i, j, interval, this_value) ==
    IF i < j
    THEN renumber_assign_unspaced([ss EXCEPT ![current].value = this_value],
                                  ss[current].next, i + 1, j, interval, this_value)
    ELSE ss

\* The for loop of renumber: relabel j super-nodes starting at `current`.
RECURSIVE renumber_assign(_, _, _, _, _, _)
renumber_assign(ss, current, i, j, interval, this_value) ==
    IF i < j
    THEN renumber_assign(
             [ss EXCEPT ![current].value = WrappingAdd(this_value, MulSmall(interval, i))],
             ss[current].next, i + 1, j, interval, this_value)
    ELSE ss

\* A renumber that leaves the colliding super-node labels as they are.
renumber_skipped(ss, this) == ss

renumber(ss, this) ==
    LET this_value == ss[this].value
        w == renumber_walk(ss, this_value, ss[this].next, 1)
        interval == DivSmall(WrappingSub(w.current_value, this_value), w.j)
    IN  renumber_assign(ss, this, 0, w.j, interval, this_value)

\* A split_super that leaves the size of the super-node it splits at 64.
split_super_keeps_size(V, this) ==
    LET next == V.supers[this].next
        this_value == V.supers[this].value
        next_value == V.supers[next].value
        value == WrappingAdd(this_value,
                     DivCeil2(WrappingSub(WrappingSub(next_value, U64One), this_value)))
        new_node == Len(V.supers) + 1
        ss1 == Append([V.supers EXCEPT ![this].next = new_node],
                      [parent |-> V.supers[this].parent, next |-> next, size |-> HALF_SIZE,
                       value |-> value, list |-> Dangling])
        ss2 == IF value = this_value THEN renumber(ss1, this) ELSE ss1
        r == split(V.nodes, V.supers[this].list, 0, new_node)
    IN  [V EXCEPT !.nodes = r.nodes,
                  !.supers = IF r.panic THEN ss2 ELSE [ss2 EXCEPT ![new_node].list = r.ret],
                  !.panic = r.panic,
                  !.passes = IF value = this_value THEN @ + 1 ELSE @]

split_super(V, this) ==
    LET next == V.supers[this].next
        this_value == V.supers[this].value
        next_value == V.supers[next].value
        value == WrappingAdd(this_value,
                     DivCeil2(WrappingSub(WrappingSub(next_value, U64One), this_value)))
        new_node == Len(V.supers) + 1
        ss1 == Append([V.supers EXCEPT ![this].next = new_node, ![this].size = HALF_SIZE],
                      [parent |-> V.supers[this].parent, next |-> next, size |-> HALF_SIZE,
                       value |-> value, list |-> Dangling])
        list == V.supers[this].list
        ss2 == IF value = this_value THEN renumber(ss1, this) ELSE ss1
        r == split(V.nodes, list, 0, new_node)
    IN  [V EXCEPT !.nodes = r.nodes,
                  !.supers = IF r.panic THEN ss2 ELSE [ss2 EXCEPT ![new_node].list = r.ret],
                  !.panic = r.panic,
                  !.passes = IF value = this_value THEN @ + 1 ELSE @]

\* PartialVersion::insert_after.  `checks` is the build's overflow-checks setting:
\* the two plain operations of line 256 panic on overflow when it is set and wrap
\* when it is not.  The new version is the node Len(V.nodes) + 1.
insert_after(V, self, checks) ==
    LET next == V.nodes[self].next
        prev_value == V.nodes[self].value
        next_value == IF next = None THEN U64Max ELSE V.nodes[next].value
        half == DivCeil2(WrappingSub(next_value, prev_value))
        value == WrappingAdd(prev_value, half)
        overflow == U64Lt(next_value, prev_value) \/ U64Lt(value, prev_value)
        parent == V.nodes[self].parent
        new_version == Len(V.nodes) + 1
        V1 == [V EXCEPT !.nodes = Append([V.nodes EXCEPT ![self].next = new_version],
                                         [parent |-> parent, next |-> next, value |-> value]),
                        !.supers = [V.supers EXCEPT ![parent].size = @ + 1]]
        V2 == IF V1.supers[parent].size = SPLIT_SIZE THEN split_super(V1, parent) ELSE V1
    IN  IF checks /\ overflow
        THEN [V EXCEPT !.panic = TRUE]
        ELSE IF V2.panic THEN V2
        ELSE [V2 EXCEPT !.vlist.size = @ + 1]

\* An ordering_values that leaves the label of the super-node out.
ordering_values_minor(V, n) == <<U64Zero, V.nodes[n].value>>

ordering_values(V, n) ==
    LET parent == V.nodes[n].parent
        base == V.vlist.base
    IN  <<WrappingSub(V.supers[parent].value, V.supers[base].value), V.nodes[n].value>>

\* (u64, u64)::cmp: lexicographic.
TupleCmp(x, y) ==
    IF x[1] # y[1] THEN (IF U64Lt(x[1], y[1]) THEN "Less" ELSE "Greater")
    ELSE IF x[2] # y[2] THEN (IF U64Lt(x[2], y[2]) THEN "Less" ELSE "Greater")
    ELSE "Equal"

\* Ord for PartialVersion.
cmp(V, a, b) == TupleCmp(ordering_values(V, a), ordering_values(V, b))

\* Version::new(): a primary and, directly after it, its secondary.
VersionNew ==
    With(insert_after(PartialVersionNew, 1, TRUE), LAMBDA V1 :
        [heap |-> V1, version |-> [primary |-> 1, secondary |-> Len(V1.nodes)]])

\* A Version::insert_after that puts the secondary, too, directly after self.primary.
Version_insert_after_reversed(V, self, checks) ==
    With(insert_after(V, self.primary, checks), LAMBDA V1 :
    With(Len(V1.nodes), LAMBDA primary :
    With(IF V1.panic THEN V1 ELSE insert_after(V1, self.primary, checks), LAMBDA V2 :
        [heap |-> V2, version |-> [primary |-> primary, secondary |-> Len(V2.nodes)]])))

\* Version::insert_after: primary directly after self.primary, secondary after it.
Version_insert_after(V, self, checks) ==
    With(insert_after(V, self.primary, checks), LAMBDA V1 :
    With(Len(V1.nodes), LAMBDA primary :
    With(IF V1.panic THEN V1 ELSE insert_after(V1, primary, checks), LAMBDA V2 :
        [heap |-> V2, version |-> [primary |-> primary, secondary |-> Len(V2.nodes)]])))

(***************************************************************************)
(* cell.rs: the persistent cell.  A tree is a function from the keys       *)
(* (PartialVersion nodes) to entries [owned, ptr]: Owned(box) has owned =  *)
(* TRUE and ptr the box, Pointer(p) has owned = FALSE and ptr = p, a box   *)
(* or None.  A reference &T is the box it points into.                     *)
(***************************************************************************)
PersistentCellNew == <<>>

\* BTreeMap::insert.
BTreeMapInsert(tree, key, entry) ==
    [k \in DOMAIN tree \cup {key} |-> IF k = key THEN entry ELSE tree[k]]

\* tree.range(..=key).last(): the greatest key of the tree that is not above `key`
\* in the order of PartialVersion::cmp, or None.
RangeLast(V, tree, key) ==
    With({k \in DOMAIN tree : cmp(V, k, key) # "Greater"}, LAMBDA below :
        IF below = {} THEN None
        ELSE CHOOSE k \in below : \A other \in below : cmp(V, other, k) # "Greater")

\* The Owned entries of a tree.
OwnedEntries(tree) == [k \in {j \in DOMAIN tree : tree[j].owned} |-> tree[k]]

\* A get that looks at the Owned entries only.
PersistentCell_get_greatest_owned(V, tree, version) ==
    With(RangeLast(V, OwnedEntries(tree), version.primary), LAMBDA k :
        IF k = None THEN None ELSE tree[k].ptr)

\* PersistentCell::get: the box read at `version`, or None.
PersistentCell_get(V, tree, version) ==
    With(RangeLast(V, tree, version.primary), LAMBDA k :
        IF k = None THEN None ELSE tree[k].ptr)

\* PersistentCell::get_mut: the box a mutable reference is handed out to, or None.
PersistentCell_get_mut(V, tree, version) ==
    With(RangeLast(V, tree, version.primary), LAMBDA k :
        IF k = None THEN None
        ELSE IF tree[k].owned THEN tree[k].ptr
        ELSE None)

\* A get_pointer that looks the version up by its secondary.
get_pointer_by_secondary(V, tree, version) ==
    With(RangeLast(V, tree, version.secondary), LAMBDA k :
        IF k = None THEN None ELSE tree[k].ptr)

\* PersistentCell::get_pointer.
get_pointer(V, tree, version) ==
    With(RangeLast(V, tree, version.primary), LAMBDA k :
        IF k = None THEN None ELSE tree[k].ptr)

\* An insert_after that records the Owned entry only.
PersistentCell_insert_after_owned_only(V, tree, version, box, checks) ==
    With(Version_insert_after(V, version, checks), LAMBDA r :
        [heap |-> r.heap,
         tree |-> IF r.heap.panic THEN tree
                  ELSE BTreeMapInsert(tree, r.version.primary, [owned |-> TRUE, ptr |-> box]),
         version |-> r.version])

\* PersistentCell::insert_after(version, value), `box` being the Box of the value.
PersistentCell_insert_after(V, tree, version, box, checks) ==
    With(Version_insert_after(V, version, checks), LAMBDA r :
    With(BTreeMapInsert(tree, r.version.primary, [owned |-> TRUE, ptr |-> box]), LAMBDA t1 :
        [heap |-> r.heap,
         tree |-> IF r.heap.panic THEN tree
                  ELSE BTreeMapInsert(t1, r.version.secondary,
                           [owned |-> FALSE, ptr |-> get_pointer(r.heap, t1, version)]),
         version |-> r.version]))

(***************************************************************************)
(* vec.rs: the persistent Vec.  D is the state the operators pass along:   *)
(* [heap, cells, boxes, len, len_boxes, panic], the version list, the slot *)
(* cells (self.vec) with their boxes, and the length cell with its boxes.  *)
(* A usize is a u64 (a 64-bit target).                                     *)
(***************************************************************************)
\* Vec::len.
Vec_len(D, version) ==
    With(PersistentCell_get(D.heap, D.len, version), LAMBDA r :
        IF r = None THEN U64Zero ELSE D.len_boxes[r])

\* Vec::set_len_after: the state and the Version returned.
set_len_after(D, version, len, checks) ==
    With(PersistentCell_insert_after(D.heap, D.len, version, Len(D.len_boxes) + 1, checks),
         LAMBDA r :
        [state |-> [D EXCEPT !.heap = r.heap, !.len = r.tree,
                             !.len_boxes = Append(@, len), !.panic = r.heap.panic],
         version |-> r.version])

\* Vec::pop_after: `len - 1` panics below zero with overflow checks and wraps
\* without them.
pop_after(D, version, checks) ==
    With(Vec_len(D, version), LAMBDA len :
        IF checks /\ len = U64Zero
        THEN [state |-> [D EXCEPT !.panic = TRUE], version |-> version]
        ELSE set_len_after(D, version, WrappingSub(len, U64One), checks))

\* Vec::push_after, lines 33-35: the slot cell is indexed (a panic past the end),
\* the value is inserted into it, and the length is set after the Version made.
push_slot(D, len, value, version, checks) ==
    IF len[3] # 0 \/ len[4] # 0 \/ len[2] * LIMB + len[1] >= Len(D.cells)
    THEN [state |-> [D EXCEPT !.panic = TRUE], version |-> version]
    ELSE With(len[2] * LIMB + len[1] + 1, LAMBDA slot :
         With(PersistentCell_insert_after(D.heap, D.cells[slot], version,
                                          Len(D.boxes) + 1, checks), LAMBDA r :
             IF r.heap.panic \/ (checks /\ len = U64Max)
             THEN [state |-> [D EXCEPT !.panic = TRUE], version |-> version]
             ELSE set_len_after([D EXCEPT !.heap = r.heap, !.cells[slot] = r.tree,
                                          !.boxes = Append(@, value)],
                                r.version, WrappingAdd(len, U64One), checks)))

\* Vec::push_after.
push_after(D, value, version, checks) ==
    With(Vec_len(D, version), LAMBDA len :
        IF len = U64FromSmall(Len(D.cells))
        THEN push_slot([D EXCEPT !.cells = Append(@, PersistentCellNew)], len, value,
                       version, checks)
        ELSE push_slot(D, len, value, version, checks))

\* Index for VecView: [ok, value], ok = FALSE being one of the two panics (the
\* explicit bounds panic, the slice index of self.inner.vec, the expect).
VecView_index(D, version, index) ==
    With(Vec_len(D, version), LAMBDA len :
        IF ~U64Lt(U64FromSmall(index), len) \/ index >= Len(D.cells)
        THEN [ok |-> FALSE, value |-> None]
        ELSE With(PersistentCell_get(D.heap, D.cells[index + 1], version), LAMBDA r :
                 IF r = None THEN [ok |-> FALSE, value |-> None]
                 ELSE [ok |-> TRUE, value |-> D.boxes[r]]))

(***************************************************************************)
(* lib.rs: the persistent doubly-linked list.  The operators pass along    *)
(* the heap L = [nodes, panic, raced, diverged, writes]: the arena,        *)
(* whether an assertion has failed, and three ghosts.  `raced` records     *)
(* that cascade_ptrs, which holds `&self` while its callees write through  *)
(* raw pointers, found self.prev changed by its own first half; `diverged` *)
(* that the cascade went deeper than ListFuel calls; `writes` lists the    *)
(* set_ptr calls made.                                                     *)
(***************************************************************************)
Panicked == 0 - 2

ListFuel == 24

ListPanic(L) == [L EXCEPT !.panic = TRUE]

\* PersistentLinkedListPointer::new.
pointer_new(version) ==
    [original_version |-> version, original |-> None, new_version |-> None, new |-> None]

\* The assertion of PersistentLinkedListPointer::get.
pointer_get_ok(p, version) == version >= p.original_version

\* A get that serves the overlay to every version.
pointer_get_newest(p, version) ==
    IF p.new_version # None THEN p.new ELSE p.original

\* PersistentLinkedListPointer::get, its assertion aside.
pointer_get(p, version) ==
    IF p.new_version # None /\ p.new_version <= version THEN p.new ELSE p.original

\* PersistentLinkedListPointer::update: the slot afterwards, whether a copy is
\* required, and whether an assertion failed.
update(p, version, ptr) ==
    IF p.new_version # None
    THEN IF p.new_version = version
         THEN [p |-> [p EXCEPT !.new = ptr], copy_required |-> FALSE, panic |-> FALSE]
         ELSE [p |-> p, copy_required |-> TRUE, panic |-> ~(p.new_version < version)]
    ELSE IF p.original_version = version
         THEN [p |-> [p EXCEPT !.original = ptr], copy_required |-> FALSE, panic |-> FALSE]
         ELSE [p |-> [p EXCEPT !.new_version = version, !.new = ptr],
               copy_required |-> FALSE,
               panic |-> ~(p.original_version < version /\ version > 0)]

\* PersistentLinkedListInner::alloc: the new node is Len(L.nodes) + 1.
alloc(L, value, version) ==
    [L EXCEPT !.nodes = Append(@, [value |-> value, next |-> pointer_new(version),
                                   prev |-> pointer_new(version), copy |-> None])]

\* A get_new_version that never follows the copy pointer.
get_new_version_uncopied(L, opt) == opt

\* get_new_version.
get_new_version(L, opt) == IF L.nodes[opt].copy # None THEN L.nodes[opt].copy ELSE opt

\* PersistentLinkedListInner::copy: the copy is Len(L.nodes) + 1.
copy(L, self, value, version) ==
    With(alloc(L, value, version), LAMBDA L1 :
    With(Len(L1.nodes), LAMBDA c :
    With(update(L1.nodes[c].next, version, pointer_get(L1.nodes[self].next, version)),
         LAMBDA un :
    With(update(L1.nodes[c].prev, version, pointer_get(L1.nodes[self].prev, version)),
         LAMBDA up :
        IF \/ ~pointer_get_ok(L1.nodes[self].next, version)
           \/ ~pointer_get_ok(L1.nodes[self].prev, version)
           \/ un.copy_required \/ un.panic \/ up.copy_required \/ up.panic
        THEN ListPanic(L1)
        ELSE [L1 EXCEPT !.nodes[c].next = un.p, !.nodes[c].prev = up.p,
                        !.nodes[self].copy = c]))))

\* PersistentLinkedListInner::set_ptr; `which` is "next" or "prev".  The result is
\* the heap and the node returned (None, the copy, or self).  The ghost `writes`
\* notes the call: the slot before and after, the node's copy pointer after, the
\* pointers of the node as seen at the version, and the node made, if any.
set_ptr(L, self, version, ptr, which) ==
    With(IF ~pointer_get_ok(L.nodes[self][which], version)
         THEN [heap |-> ListPanic(L), ret |-> None]
         ELSE IF pointer_get(L.nodes[self][which], version) = ptr
         THEN [heap |-> L, ret |-> None]
         ELSE With(update(L.nodes[self][which], version, ptr), LAMBDA u :
              IF u.panic THEN [heap |-> ListPanic(L), ret |-> None]
              ELSE IF u.copy_required
              THEN With(copy(L, self, L.nodes[self].value, version), LAMBDA Lc :
                   With(Len(Lc.nodes), LAMBDA c :
                   With(update(Lc.nodes[c][which], version, ptr), LAMBDA uc :
                       IF Lc.panic \/ uc.copy_required \/ uc.panic
                       THEN [heap |-> ListPanic(Lc), ret |-> None]
                       ELSE [heap |-> [Lc EXCEPT !.nodes[c][which] = uc.p], ret |-> c])))
              ELSE IF pointer_get(u.p, version) # ptr
              THEN [heap |-> ListPanic(L), ret |-> None]
              ELSE [heap |-> [L EXCEPT !.nodes[self][which] = u.p], ret |-> self]),
         LAMBDA r :
        [heap |-> [r.heap EXCEPT !.writes = Append(@,
                      [node |-> self, which |-> which, version |-> version, ptr |-> ptr,
                       slot |-> L.nodes[self][which],
                       after |-> r.heap.nodes[self][which],
                       copy |-> r.heap.nodes[self].copy,
                       seen |-> [next |-> pointer_get(L.nodes[self].next, version),
                                 prev |-> pointer_get(L.nodes[self].prev, version)],
                       made |-> IF r.ret \in {None, self} THEN <<>>
                                ELSE <<r.heap.nodes[r.ret]>>,
                       ret |-> r.ret,
                       panic |-> r.heap.panic])],
         ret |-> r.ret])

\* PersistentLinkedListInner::cascade_ptrs, and one of its two if-let blocks: `side`
\* is the slot of self that is followed, `back` the slot of the neighbour that is
\* pointed back at self.
RECURSIVE cascade_ptrs(_, _, _, _)
RECURSIVE cascade_side(_, _, _, _, _, _)
cascade_side(L, self, version, side, back, fuel) ==
    IF ~pointer_get_ok(L.nodes[self][side], version) THEN ListPanic(L)
    ELSE With(pointer_get(L.nodes[self][side], version), LAMBDA t :
         IF t = None THEN L
         ELSE With(set_ptr(L, get_new_version(L, t), version, self, back), LAMBDA r :
              IF r.heap.panic \/ r.ret = None THEN r.heap
              ELSE cascade_ptrs(r.heap, r.ret, version, fuel - 1)))

cascade_ptrs(L, self, version, fuel) ==
    IF fuel = 0 THEN [L EXCEPT !.panic = TRUE, !.diverged = TRUE]
    ELSE With(cascade_side(L, self, version, "next", "prev", fuel), LAMBDA L1 :
         IF L1.panic THEN L1
         ELSE With(pointer_get(L1.nodes[self].prev, version)
                       # pointer_get(L.nodes[self].prev, version), LAMBDA moved :
              cascade_side([L1 EXCEPT !.raced = @ \/ moved], self, version,
                           "prev", "next", fuel)))

\* insert_on_opt, lines 97-103: the new node goes in front of `opt`.
insert_before(L, opt, value, version) ==
    With(Len(L.nodes) + 1, LAMBDA new_node :
    With(set_ptr(alloc(L, value, version), new_node, version, opt, "next"), LAMBDA r1 :
        IF r1.heap.panic THEN [heap |-> r1.heap, ret |-> None]
        ELSE IF ~pointer_get_ok(r1.heap.nodes[opt].prev, version)
        THEN [heap |-> ListPanic(r1.heap), ret |-> None]
        ELSE With(set_ptr(r1.heap, new_node, version,
                          pointer_get(r1.heap.nodes[opt].prev, version), "prev"),
                  LAMBDA r2 :
             IF r2.heap.panic THEN [heap |-> r2.heap, ret |-> None]
             ELSE [heap |-> cascade_ptrs(r2.heap, new_node, version, ListFuel),
                   ret |-> new_node])))

\* insert_on_opt, lines 107-110: the new node goes behind `opt`, the last node.
insert_behind(L, opt, value, version) ==
    With(Len(L.nodes) + 1, LAMBDA new_node :
    With(set_ptr(alloc(L, value, version), new_node, version, opt, "prev"), LAMBDA r1 :
        IF r1.heap.panic THEN r1.heap
        ELSE cascade_ptrs(r1.heap, new_node, version, ListFuel)))

\* insert_on_opt: the heap and the node returned (None for an index out of range).
RECURSIVE insert_on_opt(_, _, _, _, _)
insert_on_opt(L, opt, index, value, version) ==
    IF opt = None THEN [heap |-> L, ret |-> None]
    ELSE IF index = 0 THEN insert_before(L, opt, value, version)
    ELSE IF ~pointer_get_ok(L.nodes[opt].next, version - 1)
    THEN [heap |-> ListPanic(L), ret |-> None]
    ELSE With(pointer_get(L.nodes[opt].next, version - 1), LAMBDA next :
         With(IF next = None /\ index = 1
              THEN [heap |-> insert_behind(L, opt, value, version), ret |-> opt]
              ELSE insert_on_opt(L, next, index - 1, value, version), LAMBDA r :
             IF r.heap.panic \/ r.ret = None THEN [heap |-> r.heap, ret |-> None]
             ELSE [heap |-> r.heap, ret |-> get_new_version(r.heap, opt)]))

\* get_on_opt: the value read, None past the end, Panicked when an assertion of
\* PersistentLinkedListPointer::get fails on the way.
RECURSIVE get_on_opt(_, _, _, _)
get_on_opt(L, opt, index, version) ==
    IF opt = None THEN None
    ELSE IF index = 0 THEN L.nodes[opt].value
    ELSE IF ~pointer_get_ok(L.nodes[opt].next, version) THEN Panicked
    ELSE get_on_opt(L, pointer_get(L.nodes[opt].next, version), index - 1, version)

\* PersistenLinkedList::new.
PersistenLinkedListNew == [value |-> None, version |-> 0]

\* PersistenLinkedList::insert: the heap, whether Some list is returned (not for an
\* index out of range, nor when the call panicked), and that list.
insert(L, self, index, value) ==
    IF self.value # None
    THEN With(insert_on_opt(L, self.value, index, value, self.version + 1), LAMBDA r :
             [heap |-> r.heap,
              some |-> ~r.heap.panic /\ r.ret # None,
              list |-> [value |-> r.ret, version |-> self.version + 1]])
    ELSE IF index = 0
    THEN [heap |-> alloc(L, value, self.version + 1),
          some |-> TRUE,
          list |-> [value |-> Len(L.nodes) + 1, version |-> self.version + 1]]
    ELSE [heap |-> L, some |-> FALSE, list |-> self]

(***************************************************************************)
(* link.rs and binary_tree.rs: the link fabric and the search tree on it.  *)
(* A slot of a node's link container is [some, tag, version, node_pointer, *)
(* link_pointer]; a pointer to a slot is [node, slot].  Node::add calls    *)
(* itself on the target node, so it is modelled one step at a time on an   *)
(* explicit call stack: a frame is [self, tag, pointer, version, reverse,  *)
(* pc, link, copy, to_move].  The stack holds at most MaxStack frames; a   *)
(* call beyond that is the stack overflow that aborts the process.         *)
(***************************************************************************)
CAPACITY == 4
MaxStack == 12

Tags == {"LeftChild", "RightChild", "LeftParent", "RightParent"}

\* <Tag as LinkTag>::reverse.
reverse(tag) ==
    CASE tag = "LeftChild" -> "LeftParent"
      [] tag = "RightChild" -> "RightParent"
      [] tag = "LeftParent" -> "LeftChild"
      [] tag = "RightParent" -> "RightChild"

\* NonNull::dangling() as a pointer to a slot.
DanglingLink == [node |-> None, slot |-> None]

\* Option<Link>::None, and Some(Link {..}).
EmptySlot ==
    [some |-> FALSE, tag |-> "", version |-> None, node_pointer |-> None,
     link_pointer |-> DanglingLink]

Link(tag, version, node_pointer, link_pointer) ==
    [some |-> TRUE, tag |-> tag, version |-> version, node_pointer |-> node_pointer,
     link_pointer |-> link_pointer]

\* Node { link_container: from_fn(|_| None), value, copy: None }.
NodeNew(value) ==
    [link_container |-> [i \in 1..CAPACITY |-> EmptySlot], value |-> value, copy |-> None]

\* iter_mut().find(|link| link.is_none()): the first free slot, None when full.
find_free(container) ==
    IF \A i \in 1..Len(container) : container[i].some THEN None
    ELSE CHOOSE i \in 1..Len(container) :
             ~container[i].some /\ \A j \in 1..(i - 1) : container[j].some

\* The first loop of copy_and_prepare over `container`: the slots that are the
\* latest for their tag, in index order.
to_move(V, container) ==
    SelectSeq([i \in 1..Len(container) |-> i],
              LAMBDA i :
                  /\ container[i].some
                  /\ \A j \in 1..Len(container) :
                         container[j].some =>
                             \/ container[j].tag # container[i].tag
                             \/ cmp(V, container[j].version, container[i].version)
                                    # "Greater")

\* <binary_tree::Node as link::Node>::copy: the copy is Len(T) + 1.
node_copy(T, self) ==
    Append([T EXCEPT ![self].copy = Len(T) + 1], NodeNew(T[self].value))

\* The slots of a container with the tag and a version not above `version`.
fitting(V, container, tag, version) ==
    {i \in 1..Len(container) :
        /\ container[i].some
        /\ container[i].tag = tag
        /\ cmp(V, container[i].version, version) # "Greater"}

\* A get that returns the target of the first slot with the tag and a version not
\* above `version`.
link_get_first_fit(V, T, self, tag, version) ==
    With(fitting(V, T[self].link_container, tag, version), LAMBDA fit :
        IF fit = {} THEN None
        ELSE T[self].link_container[CHOOSE i \in fit : \A j \in fit : i <= j].node_pointer)

\* link::Node::get: the target of the slot with the tag and the greatest version
\* not above `version` (max_by_key keeps the last of equal maxima), or None.
link_get(V, T, self, tag, version) ==
    LET container == T[self].link_container
        fit == {i \in 1..Len(container) :
                   /\ container[i].some
                   /\ container[i].tag = tag
                   /\ cmp(V, container[i].version, version) # "Greater"}
        best == CHOOSE i \in fit : \A j \in fit :
                    LET c == cmp(V, container[j].version, container[i].version)
                    IN  c = "Less" \/ (c = "Equal" /\ j <= i)
    IN  IF fit = {} THEN None ELSE container[best].node_pointer

Frame(self, tag, pointer, version, rev) ==
    [self |-> self, tag |-> tag, pointer |-> pointer, version |-> version,
     reverse |-> rev, pc |-> "entry", link |-> None, copy |-> None, to_move |-> <<>>]

\* A call: the caller's frame is left at `pc`, the callee's frame is pushed; with
\* the stack full the call overflows it.
Call(S, pc, frame) ==
    IF Len(S.stack) >= MaxStack
    THEN [S EXCEPT !.crashed = TRUE]
    ELSE [S EXCEPT !.stack = Append([@ EXCEPT ![Len(@)].pc = pc], frame)]

\* A return of (node, link) from the top frame.
Return(S, node, link) ==
    [S EXCEPT !.stack = SubSeq(@, 1, Len(@) - 1), !.ret = [node |-> node, link |-> link]]

\* Node::add, lines 77-90: a free slot is taken for the new link, or the node is
\* copied (the first half of copy_and_prepare).
add_entry(V, S, f) ==
    LET free == find_free(S.nodes[f.self].link_container)
        S1 == [S EXCEPT !.nodes[f.self].link_container[free] =
                            Link(f.tag, f.version, f.pointer, DanglingLink),
                        !.stack[Len(S.stack)].link = free]
        copied == node_copy(S.nodes, f.self)
        c == Len(copied)
    IN  IF free # None
        THEN IF ~f.reverse
             THEN Call(S1, "wire", Frame(f.pointer, reverse(f.tag), f.self, f.version, FALSE))
             ELSE Return(S1, f.self, [node |-> f.self, slot |-> free])
        ELSE [S EXCEPT !.nodes = copied,
                       !.stack[Len(S.stack)].pc = "move",
                       !.stack[Len(S.stack)].copy = c,
                       !.stack[Len(S.stack)].to_move = to_move(V, copied[c].link_container)]

\* Node::add, lines 98-104: the reverse call has returned (pointer, link_pointer).
add_wire(S, f) ==
    LET here == [node |-> f.self, slot |-> f.link]
        S1 == [S EXCEPT !.nodes[f.self].link_container[f.link].node_pointer = S.ret.node,
                        !.nodes[f.self].link_container[f.link].link_pointer = S.ret.link]
        S2 == [S1 EXCEPT !.nodes[S.ret.link.node].link_container[S.ret.link.slot].link_pointer
                             = here]
    IN  Return(S2, f.self, here)

\* copy_and_prepare, lines 45-67, and the call of line 107: one slot of to_move is
\* carried over, or, when none is left, add is called on the copy.
add_move(S, f) ==
    LET top == Len(S.stack)
        container == S.nodes[f.copy].link_container
        i == Head(f.to_move)
        link == container[i]
        free == find_free(container)
        twin == link.link_pointer
        rest == [S EXCEPT !.stack[top].to_move = Tail(f.to_move)]
        moved == [rest EXCEPT
                     !.nodes[f.copy].link_container[free] =
                         Link(link.tag, f.version, link.node_pointer, link.link_pointer),
                     !.nodes[twin.node].link_container[twin.slot].node_pointer = f.copy,
                     !.nodes[twin.node].link_container[twin.slot].link_pointer =
                         [node |-> f.copy, slot |-> free]]
    IN  IF f.to_move = <<>>
        THEN Call(S, "tail", Frame(f.copy, f.tag, f.pointer, f.version, f.reverse))
        ELSE IF link.version = f.version
        THEN IF free = None \/ twin = DanglingLink
             THEN [S EXCEPT !.crashed = TRUE]
             ELSE [moved EXCEPT !.nodes[f.copy].link_container[i] = EmptySlot]
        ELSE Call(rest, "move", Frame(f.copy, link.tag, link.node_pointer, f.version, FALSE))

\* One step of the call on top of the stack.
add_step(V, S) ==
    LET f == S.stack[Len(S.stack)]
    IN  CASE f.pc = "entry" -> add_entry(V, S, f)
          [] f.pc = "wire" -> add_wire(S, f)
          [] f.pc = "move" -> add_move(S, f)
          [] f.pc = "tail" -> Return(S, S.ret.node, S.ret.link)

\* Node::insert, lines 60-92, up to its call of add: the node the new key is hung
\* on, and the tag.
RECURSIVE descend(_, _, _, _, _)
descend(V, T, self, value, version) ==
    LET tag == IF value < T[self].value THEN "LeftChild" ELSE "RightChild"
        child == link_get(V, T, self, tag, version)
    IN  IF child # None THEN descend(V, T, child, value, version)
        ELSE [node |-> self, tag |-> tag]

\* Node::contains.
RECURSIVE contains(_, _, _, _, _)
contains(V, T, self, value, version) ==
    IF value = T[self].value THEN TRUE
    ELSE LET tag == IF value < T[self].value THEN "LeftChild" ELSE "RightChild"
             child == link_get(V, T, self, tag, version)
         IN  IF child = None THEN FALSE ELSE contains(V, T, child, value, version)

(***************************************************************************)
(* The harness of the version tests: version_test inserts after a version  *)
(* at any position of its list and keeps the list in canonical order;      *)
(* adversarial always inserts after the first version.                     *)
(***************************************************************************)
PosSpread == 2
FreshInserts == 5
MidInserts == 2
MaxHammer == 2120
SpineInserts == 100

\* The positions the harness draws from: the first and last PosSpread of the list.
Positions(n) == {i \in 1..n : i <= PosSpread \/ i > n - PosSpread}

\* n calls of insert_after in a row, each after the first version ("head") or after
\* the version returned last ("tail"), or n calls of Version::insert_after on the
\* first Version ("pair"), evaluated in halves to keep the evaluation stack shallow.
RECURSIVE Iter(_, _, _)
Iter(V, n, mode) ==
    IF n = 0 THEN V
    ELSE IF n = 1
    THEN IF mode = "pair"
         THEN Version_insert_after(V, [primary |-> 1], TRUE).heap
         ELSE insert_after(V, IF mode = "head" THEN 1 ELSE Len(V.nodes), TRUE)
    ELSE CHOOSE r \in {Iter(h, n - (n \div 2), mode) : h \in {Iter(V, n \div 2, mode)}} : TRUE

\* One insert short of the first split, and of the first renumber pass.
BeforeSplit == SPLIT_SIZE - 2
BeforeRenumber == BeforeSplit + SPLIT_SIZE * HALF_SIZE

\* The runs the harness starts from: [mode, n inserts already made, inserts to make].
Scenarios ==
    {[mode |-> "head", n |-> 0, inserts |-> FreshInserts]}
    \cup {[mode |-> m, n |-> BeforeSplit, inserts |-> MidInserts] : m \in {"head", "tail"}}
    \cup {[mode |-> m, n |-> BeforeRenumber, inserts |-> 1] : m \in {"head", "tail"}}

ScenarioOrder(sc) ==
    IF sc.mode = "head"
    THEN <<1>> \o [i \in 1..sc.n |-> sc.n + 2 - i]
    ELSE [i \in 1..(sc.n + 1) |-> i]

\* No tree node and no Vec has been made.
NoLinks ==
    /\ vec = [len |-> <<>>, len_boxes |-> <<>>]
    /\ tnodes = <<>>
    /\ stack = <<>>
    /\ ret = [node |-> None, link |-> DanglingLink]
    /\ tghost = {}

\* No list has been made.
NoLists ==
    /\ lnodes = <<>>
    /\ lists = <<>>
    /\ lghost = [raced |-> FALSE, diverged |-> FALSE]

\* No version list has been made.
NoVersions ==
    /\ nodes = <<>>
    /\ supers = <<>>
    /\ vlist = [size |-> 0, base |-> None]
    /\ passes = 0
    /\ overflow_checks = TRUE
    /\ order = <<>>
    /\ returned = <<>>
    /\ versions = <<>>
    /\ cells = <<>>
    /\ boxes = <<>>

\* No Version and no cell has been made.
NoCells ==
    /\ versions = <<>>
    /\ cells = <<>>
    /\ boxes = <<>>
    /\ history = <<>>
    /\ snapshot = <<>>

InitFrom(sc) ==
    \E b \in {Iter(PartialVersionNew, sc.n, sc.mode)} :
        /\ nodes = b.nodes
        /\ supers = b.supers
        /\ vlist = b.vlist
        /\ passes = b.passes
        /\ overflow_checks = TRUE
        /\ aborted = FALSE
        /\ order = ScenarioOrder(sc)
        /\ returned = [i \in 1..sc.n |-> i + 1]
        /\ call = [from |-> None, ret |-> None]
        /\ remaining = sc.inserts
        /\ NoCells
        /\ NoLists
        /\ NoLinks

InitVersion == \E sc \in Scenarios : InitFrom(sc)

\* The adversarial run from the start, and the same run picked up one insert short
\* of its first renumber pass.
AdversarialScenarios ==
    {[mode |-> "head", n |-> 0, inserts |-> MaxHammer],
     [mode |-> "head", n |-> BeforeRenumber, inserts |-> MidInserts]}

InitAdversarial == \E sc \in AdversarialScenarios : InitFrom(sc)

\* The nodes of an inner list from node n on, in list order.
RECURSIVE ChainFrom(_)
ChainFrom(n) == IF n = None THEN <<>> ELSE <<n>> \o ChainFrom(nodes[n].next)

\* The inner chain of super-node s.
Chain(s) == ChainFrom(supers[s].list)

\* What the harness notes of a call on node n before it is made: the super-node of
\* n, its inner chain, and the labels of the super-nodes.
Before(n) ==
    [from |-> n, ret |-> None, parent |-> nodes[n].parent,
     chain |-> Chain(nodes[n].parent),
     labels |-> [sn \in 1..Len(supers) |-> supers[sn].value]]

\* version_list[i].insert_after(), the result put at position i + 1.
InsertAt(i) ==
    /\ ~aborted
    /\ remaining > 0
    /\ \E r \in {insert_after(Heap, order[i], overflow_checks)} :
        /\ nodes' = r.nodes
        /\ supers' = r.supers
        /\ vlist' = r.vlist
        /\ passes' = r.passes
        /\ aborted' = r.panic
        /\ remaining' = remaining - 1
        /\ IF r.panic
           THEN /\ call' = [Before(order[i]) EXCEPT !.ret = None]
                /\ UNCHANGED <<order, returned>>
           ELSE /\ call' = [Before(order[i]) EXCEPT !.ret = Len(r.nodes)]
                /\ order' = SubSeq(order, 1, i) \o <<Len(r.nodes)>>
                              \o SubSeq(order, i + 1, Len(order))
                /\ returned' = Append(returned, Len(r.nodes))
    /\ UNCHANGED <<overflow_checks, cellVars, listVars, linkVars>>

InsertAnywhere == \E i \in Positions(Len(order)) : InsertAt(i)

Hammer == InsertAt(1)

SpecVersion == InitVersion /\ [][InsertAnywhere]_vars

SpecAdversarial == InitAdversarial /\ [][Hammer]_vars

\* The adversarial run for its first SpineInserts calls, and the same run picked up
\* one insert short of its first renumber pass.
SpineScenarios ==
    {[mode |-> "head", n |-> 0, inserts |-> SpineInserts],
     [mode |-> "head", n |-> BeforeRenumber, inserts |-> MidInserts]}

InitSpine == \E sc \in SpineScenarios : InitFrom(sc)

SpecSpine == InitSpine /\ [][Hammer]_vars

(***************************************************************************)
(* The harness of the cell tests (cell.rs, double_test and                 *)
(* full_persistent_test): cells sharing one version tree, each call an     *)
(* insert_after on one of the cells after any Version made so far.  A run  *)
(* starts from Version::new(), or from a tree on which Version::insert_after*)
(* has already been called PadVersions times, so that the next inserts     *)
(* split the group of the cells' keys.                                     *)
(***************************************************************************)
NumCells == 2
MaxValue == 2
CellInserts == 4
PadVersions == 29
PadInserts == 3

CellValues == 1..MaxValue

\* The Versions the harness inserts after: the first one and those a cell returned.
CellTargets == {v \in 1..Len(versions) : v = 1 \/ history[v].cell # None}

InitCell ==
    \E pad \in {0, PadVersions} : \E b \in {Iter(VersionNew.heap, pad, "pair")} :
        /\ nodes = b.nodes
        /\ supers = b.supers
        /\ vlist = b.vlist
        /\ passes = b.passes
        /\ overflow_checks = TRUE
        /\ aborted = FALSE
        /\ order = <<>>
        /\ returned = <<>>
        /\ call = [from |-> None, ret |-> None]
        /\ remaining = IF pad = 0 THEN CellInserts ELSE PadInserts
        /\ versions = <<VersionNew.version>>
                        \o [i \in 1..pad |-> [primary |-> 2 * i + 1, secondary |-> 2 * i + 2]]
        /\ history = [i \in 1..(pad + 1) |->
                         [parent |-> IF i = 1 THEN None ELSE 1, cell |-> None, value |-> None]]
        /\ cells = [c \in 1..NumCells |-> PersistentCellNew]
        /\ boxes = <<>>
        /\ snapshot = [c \in 1..NumCells |-> <<>>]
        /\ NoLists
        /\ NoLinks

\* assert_eq!(cell.get(version), ...): the value cell c reads at Version v, or None.
CellRead(c, v) ==
    LET r == PersistentCell_get(Heap, cells[c], versions[v])
    IN  IF r = None THEN None ELSE boxes[r]

\* version = cells[c].insert_after(versions[v], Box::new(x)).
CellInsertAfter(c, v, x) ==
    /\ ~aborted
    /\ remaining > 0
    /\ \E r \in {PersistentCell_insert_after(Heap, cells[c], versions[v], Len(boxes) + 1,
                                             overflow_checks)} :
        /\ nodes' = r.heap.nodes
        /\ supers' = r.heap.supers
        /\ vlist' = r.heap.vlist
        /\ passes' = r.heap.passes
        /\ aborted' = r.heap.panic
        /\ IF r.heap.panic
           THEN /\ call' = [from |-> v, ret |-> None]
                /\ UNCHANGED cellVars
           ELSE /\ call' = [from |-> v, ret |-> Len(versions) + 1]
                /\ boxes' = Append(boxes, x)
                /\ cells' = [cells EXCEPT ![c] = r.tree]
                /\ versions' = Append(versions, r.version)
                /\ history' = Append(history, [parent |-> v, cell |-> c, value |-> x])
                /\ snapshot' = [d \in 1..NumCells |->
                                   [w \in 1..Len(versions) |-> CellRead(d, w)]]
    /\ remaining' = remaining - 1
    /\ UNCHANGED <<overflow_checks, order, returned, listVars, linkVars>>

CellInsert ==
    \E c \in 1..NumCells : \E v \in CellTargets : \E x \in CellValues :
        CellInsertAfter(c, v, x)

SpecCell == InitCell /\ [][CellInsert]_vars

\* The nearest ancestor-or-self of Version v that cell c's insert_after created, or
\* None when there is none.
RECURSIVE NearestWrite(_, _)
NearestWrite(c, v) ==
    IF v = None THEN None
    ELSE IF history[v].cell = c THEN v
    ELSE NearestWrite(c, history[v].parent)

\* C3: for cells sharing one version tree, cell.get(v) at any Version v returns the
\* value that cell's insert_after stored at the nearest ancestor-or-self of v created
\* by that cell, and None when no ancestor-or-self of v was created by that cell.
C3_GetReturnsNearestWrite ==
    \A c \in 1..Len(cells) : \A v \in 1..Len(versions) :
        LET w == NearestWrite(c, v)
        IN  CellRead(c, v) = IF w = None THEN None ELSE history[w].value

\* A Version made by one cell has an earlier-made sibling, and reads the other cell's
\* value from an ancestor to which that other cell later gave a child with another
\* value.
C3_Witness ==
    \E v \in 1..Len(versions) : \E c \in 1..Len(cells) : \E u \in 1..Len(versions) :
        /\ history[v].cell \notin {None, c}
        /\ NearestWrite(c, v) \notin {None, v}
        /\ CellRead(c, v) = history[NearestWrite(c, v)].value
        /\ u < v
        /\ history[u].parent = history[v].parent
        /\ \E y \in 1..Len(versions) :
               /\ y > v
               /\ history[y].cell = c
               /\ history[y].parent = NearestWrite(c, v)
               /\ history[y].value # CellRead(c, v)

\* C13: get_mut(v) returns a mutable reference only if v was returned by this cell's
\* insert_after; for every other Version, a descendant made by another cell
\* included, it returns None.
C13_GetMutOnlyExactOwned ==
    \A c \in 1..NumCells : \A v \in 1..Len(versions) :
        PersistentCell_get_mut(Heap, cells[c], versions[v]) # None => history[v].cell = c

\* The value of the Owned entry of cell c with the greatest Owned key <= v.primary.
GreatestOwnedValue(c, v) ==
    With(RangeLast(Heap, OwnedEntries(cells[c]), versions[v].primary), LAMBDA k :
        IF k = None THEN None ELSE boxes[cells[c][k].ptr])

\* C14 as stated: cell.get(v) returns the value inserted at v when v was returned by
\* this cell's insert_after, and otherwise the value of the Owned entry whose key is
\* the greatest Owned key <= v.primary.
C14_GetReturnsGreatestOwned ==
    \A c \in 1..NumCells : \A v \in 1..Len(versions) :
        CellRead(c, v) = IF history[v].cell = c THEN history[v].value
                         ELSE GreatestOwnedValue(c, v)

\* C14, amended: cell.get(v) returns the value inserted at v when v was returned by
\* this cell's insert_after, and otherwise what the cell reads at the Version v was
\* made from, None for the first Version: the entry with the greatest key <=
\* v.primary may be a Pointer entry, which restores the value of before an insertion.
C14_GetReturnsInsertedOrInherited ==
    \A c \in 1..NumCells : \A v \in 1..Len(versions) :
        CellRead(c, v) = IF history[v].cell = c THEN history[v].value
                         ELSE IF history[v].parent = None THEN None
                         ELSE CellRead(c, history[v].parent)

\* A Version made by another cell reads, on cell c, what its parent reads, while an
\* Owned entry of c with another value has its key before that Version: a sibling
\* of the Version that c inserted later.
C14_Witness ==
    \E c \in 1..NumCells : \E v \in 1..Len(versions) :
        /\ history[v].cell \notin {None, c}
        /\ GreatestOwnedValue(c, v) # None
        /\ CellRead(c, v) # GreatestOwnedValue(c, v)
        /\ CellRead(c, v) = CellRead(c, history[v].parent)

\* C4: an insert_after on any cell changes no existing read: every cell reads at
\* every Version that existed before the call what it read before the call.
C4_InsertKeepsReads ==
    \A c \in 1..Len(snapshot) : \A w \in 1..Len(snapshot[c]) :
        CellRead(c, w) = snapshot[c][w]

\* The last call branched from a Version that already had a child with a child of
\* its own, and the cell it was made on reads a value at those descendants.
C4_Witness ==
    /\ call.ret # None
    /\ \E w \in 1..Len(versions) : \E u \in 1..Len(versions) :
           /\ w # call.ret
           /\ history[w].parent = call.from
           /\ history[u].parent = w
           /\ CellRead(history[call.ret].cell, u) # None
           /\ CellRead(history[call.ret].cell, u) # history[call.ret].value

(***************************************************************************)
(* The harness of the list tests (lib.rs): every call is an insert on a    *)
(* list value returned earlier, the k-th call inserting the value k.  In a *)
(* chain each insert is made on the list returned last, as the             *)
(* no_persistence tests and persistence_insert_begin do; in a branching    *)
(* run on any list returned so far.                                        *)
(***************************************************************************)
ChainInserts == 7
BranchInserts == 4
ReadPast == 2
PastInserts == 5

ListHeap ==
    [nodes |-> lnodes, panic |-> FALSE, raced |-> lghost.raced, diverged |-> lghost.diverged,
     writes |-> <<>>]

\* list.get(0), ..., list.get(n - 1).
ListRead(L, list, n) ==
    <<>> \o [i \in 1..n |-> get_on_opt(L, list.value, i - 1, list.version)]

\* Vec::insert of the ephemeral sequence the list is compared with.
SeqInsert(seq, index, value) ==
    SubSeq(seq, 1, index) \o <<value>> \o SubSeq(seq, index + 1, Len(seq))

\* What lists[k] reads now, up to ReadPast places past its length.
Read(k) == ListRead(ListHeap, lists[k], Len(history[k].contents) + ReadPast)

\* What lists[k] read when it was returned.
Expected(k) == history[k].contents \o [i \in 1..ReadPast |-> None]

InitList(inserts) ==
    /\ lnodes = <<>>
    /\ lists = <<PersistenLinkedListNew>>
    /\ lghost = [raced |-> FALSE, diverged |-> FALSE, before |-> <<>>, writes |-> <<>>]
    /\ history = <<[parent |-> None, index |-> None, value |-> None, contents |-> <<>>]>>
    /\ snapshot = <<>>
    /\ call = [from |-> None, ret |-> None, index |-> None]
    /\ remaining = inserts
    /\ aborted = FALSE
    /\ NoVersions
    /\ NoLinks

InitListChain == InitList(ChainInserts)

InitListBranch == InitList(BranchInserts)

\* lists.push(lists[k].insert(index, value).unwrap()), value being the call's number.
ListInsert(k, index) ==
    /\ ~aborted
    /\ remaining > 0
    /\ \E r \in {insert(ListHeap, lists[k], index, Len(lists))} :
        /\ lnodes' = r.heap.nodes
        /\ lghost' = [raced |-> r.heap.raced, diverged |-> r.heap.diverged,
                      before |-> lnodes, writes |-> r.heap.writes]
        /\ aborted' = r.heap.panic
        /\ IF r.some
           THEN /\ lists' = Append(lists, r.list)
                /\ history' = Append(history,
                                  [parent |-> k, index |-> index, value |-> Len(lists),
                                   contents |->
                                       IF index > Len(history[k].contents)
                                       THEN history[k].contents
                                       ELSE SeqInsert(history[k].contents, index,
                                                      Len(lists))])
                /\ call' = [from |-> k, ret |-> Len(lists) + 1, index |-> index]
           ELSE /\ call' = [from |-> k, ret |-> None, index |-> index]
                /\ UNCHANGED <<lists, history>>
    /\ snapshot' = [j \in 1..Len(lists) |-> Read(j)]
    /\ remaining' = remaining - 1
    /\ UNCHANGED <<nodes, supers, vlist, passes, overflow_checks, order, returned,
                   versions, cells, boxes, linkVars>>

ChainInsert ==
    \E index \in 0..Len(history[Len(lists)].contents) : ListInsert(Len(lists), index)

BranchInsert ==
    \E k \in 1..Len(lists) : \E index \in 0..Len(history[k].contents) :
        ListInsert(k, index)

SpecListChain == InitListChain /\ [][ChainInsert]_vars

\* lists[k].insert(index, value) with index > len, on any list of the chain.
PastInsert ==
    \E k \in 1..Len(lists) :
        \E index \in (Len(history[k].contents) + 1)..(Len(history[k].contents) + ReadPast) :
            ListInsert(k, index)

InitListPast == InitList(PastInserts)

\* A chain of inserts with, in between, inserts past the end of any list made so far.
SpecListPast == InitListPast /\ [][ChainInsert \/ PastInsert]_vars

\* The same inserts past the end in between inserts on any list.
SpecListBranchPast == InitListPast /\ [][BranchInsert \/ PastInsert]_vars

SpecListBranch == InitListBranch /\ [][BranchInsert]_vars

\* C5: in a chain of inserts starting from the empty list, each on the list returned
\* by the previous call at an index in 0..=len, the list returned reads, with get(0),
\* get(1), ..., the sequence the same inserts produce on an ephemeral sequence, and
\* get(i) is None for i >= len.
C5_ChainEqualsEphemeral ==
    call.ret # None => Read(call.ret) = Expected(call.ret)

\* The list returned by a middle insert reads its four or more elements after a node
\* on its path has been copied.
C5_Witness ==
    /\ call.ret # None
    /\ Len(history[call.ret].contents) > 3
    /\ history[call.ret].index \in 1..(Len(history[call.ret].contents) - 2)
    /\ \E n \in 1..Len(lnodes) : lnodes[n].copy # None
    /\ Read(call.ret) = Expected(call.ret)

\* C6: along a chain of inserts, every list returned earlier keeps reading the
\* contents it had when it was returned.
C6_EarlierListsKeepContents ==
    \A k \in 1..Len(lists) : k # call.ret => Read(k) = Expected(k)

\* A list returned three or more inserts ago still reads its elements, although its
\* first node has been copied since and carries an overlay it must not follow.
C6_Witness ==
    \E k \in 1..Len(lists) :
        /\ k + 2 < Len(lists)
        /\ lists[k].value # None
        /\ lnodes[lists[k].value].copy # None
        /\ lnodes[lists[k].value].next.new_version # None
        /\ lnodes[lists[k].value].next.new_version > lists[k].version
        /\ Len(history[k].contents) > 1
        /\ Read(k) = Expected(k)

\* C12: insert(index, value) with index > len returns None and changes nothing (no
\* node is written, copied or made, and every list reads what it read before the
\* call); with index <= len it returns Some.
C12_InsertPastEndIsNone ==
    call.from # None =>
        IF call.index > Len(history[call.from].contents)
        THEN /\ ~aborted
             /\ call.ret = None
             /\ lnodes = lghost.before
             /\ \A k \in 1..Len(snapshot) : Read(k) = snapshot[k]
        ELSE call.ret # None

\* C7: when insert is called on a list L that already had insert called on it, the
\* call returns, the new list reads L's contents with the value inserted at the
\* index, and L and every list returned earlier read what they read before the call.
C7_BranchesKeepHistories ==
    (call.from # None /\ \E k \in 1..Len(snapshot) : history[k].parent = call.from)
        => /\ ~aborted
           /\ call.ret # None
           /\ Read(call.ret) = Expected(call.ret)
           /\ \A k \in 1..Len(snapshot) : Read(k) = snapshot[k]

\* No assertion of the list fails and no cascade runs away.
NoListPanic == ~aborted /\ ~lghost.diverged

\* cascade_ptrs never finds self.prev changed under its shared reference.
NoListRace == ~lghost.raced

(***************************************************************************)
(* The harness of the link fabric and the tree.  The Versions are a root   *)
(* and two children of it, made before the calls.  A tree run starts from  *)
(* a root node and calls insert; a link run starts from LinkNodes nodes    *)
(* and calls add.  A call is made when no call is in progress, and is then *)
(* run step by step.                                                       *)
(***************************************************************************)
MaxKey == 3
TreeInserts == 2
LinkNodes == 3
LinkAdds == 2
LinkVersions == 2

TreeKeys == 1..MaxKey

\* The Versions made before the calls: Version::new() and LinkVersions calls of
\* insert_after on it.
InitLinks(T, calls) ==
    /\ \E b \in {Iter(VersionNew.heap, LinkVersions, "pair")} :
           /\ nodes = b.nodes
           /\ supers = b.supers
           /\ vlist = b.vlist
           /\ passes = b.passes
    /\ overflow_checks = TRUE
    /\ aborted = FALSE
    /\ order = <<>>
    /\ returned = <<>>
    /\ call = [from |-> None, ret |-> None]
    /\ remaining = calls
    /\ versions = <<VersionNew.version>>
                    \o [i \in 1..LinkVersions |->
                           [primary |-> 2 * i + 1, secondary |-> 2 * i + 2]]
    /\ history = [i \in 1..(LinkVersions + 1) |-> [parent |-> IF i = 1 THEN None ELSE 1]]
    /\ cells = <<>>
    /\ boxes = <<>>
    /\ snapshot = <<>>
    /\ NoLists
    /\ vec = [len |-> <<>>, len_boxes |-> <<>>]
    /\ tnodes = T
    /\ stack = <<>>
    /\ ret = [node |-> None, link |-> DanglingLink]
    /\ tghost = {}

InitTree == \E key \in TreeKeys : InitLinks(<<NodeNew(key)>>, TreeInserts)

InitLink == InitLinks([n \in 1..LinkNodes |-> NodeNew(n)], LinkAdds)

LinkState == [nodes |-> tnodes, stack |-> stack, ret |-> ret, crashed |-> FALSE]

\* No call is in progress and the process has not been aborted.
Idle == stack = <<>> /\ ~aborted

\* root.insert(key, versions[v].primary), up to its call of add on the node found.
TreeInsert(key, v) ==
    /\ Idle
    /\ remaining > 0
    /\ LET at == descend(Heap, tnodes, 1, key, versions[v].primary)
       IN  /\ tnodes' = Append(tnodes, NodeNew(key))
           /\ stack' = <<Frame(at.node, at.tag, Len(tnodes) + 1, versions[v].primary, FALSE)>>
    /\ tghost' = tghost \cup {[key |-> key, version |-> v]}
    /\ call' = [from |-> v, ret |-> None]
    /\ remaining' = remaining - 1
    /\ UNCHANGED <<nodes, supers, vlist, passes, overflow_checks, aborted, order, returned,
                   cellVars, listVars, ret, vec>>

\* tnodes[self].add(tag, target, versions[v].primary, rev), up to its first step.
AddCall(self, tag, target, v, rev) ==
    /\ Idle
    /\ remaining > 0
    /\ stack' = <<Frame(self, tag, target, versions[v].primary, rev)>>
    /\ call' = [from |-> v, ret |-> None, self |-> self, tag |-> tag, target |-> target,
                rev |-> rev]
    /\ remaining' = remaining - 1
    /\ UNCHANGED <<nodes, supers, vlist, passes, overflow_checks, aborted, order, returned,
                   cellVars, listVars, tnodes, ret, tghost, vec>>

\* The call in progress takes its next step.
LinkStep ==
    /\ stack # <<>>
    /\ ~aborted
    /\ \E n \in {add_step(Heap, LinkState)} :
        /\ tnodes' = n.nodes
        /\ stack' = n.stack
        /\ ret' = n.ret
        /\ aborted' = n.crashed
    /\ UNCHANGED <<nodes, supers, vlist, passes, overflow_checks, order, returned, call,
                   remaining, cellVars, listVars, tghost, vec>>

TreeCall == \E key \in TreeKeys : \E v \in 1..Len(versions) : TreeInsert(key, v)

LinkCall ==
    \E self \in 1..LinkNodes : \E target \in 1..LinkNodes : \E tag \in Tags :
        \E v \in 1..Len(versions) : \E rev \in BOOLEAN :
            self # target /\ AddCall(self, tag, target, v, rev)

SpecTree == InitTree /\ [][TreeCall \/ LinkStep]_vars

SpecLink == InitLink /\ [][LinkCall \/ LinkStep]_vars

\* No add call made by an insert returns: every one of them passes reverse = false,
\* and so does the nested call of line 96.
AddNeverReturns == ret.node = None

\* The slot a pointer to a slot designates.
SlotAt(lp) == tnodes[lp.node].link_container[lp.slot]

\* The node add leaves the new slot on: the node itself or its fresh copy.
NodeOrCopy(n, m) == m = n \/ tnodes[n].copy = m

\* C16: add(node, tag, target, v, reverse = false) terminates, and when it returns
\* one new slot (tag -> target, version v) is on node or on its fresh copy and one
\* new slot (reverse(tag) -> node, version v) on target or on its fresh copy, the two
\* being each other's twins.
C16_AddTerminatesWithTwins ==
    /\ ~aborted
    /\ (Idle /\ call.from # None /\ ~call.rev) =>
           /\ NodeOrCopy(call.self, ret.link.node)
           /\ SlotAt(ret.link).some
           /\ SlotAt(ret.link).tag = call.tag
           /\ SlotAt(ret.link).version = versions[call.from].primary
           /\ NodeOrCopy(call.target, SlotAt(ret.link).node_pointer)
           /\ SlotAt(ret.link).link_pointer # DanglingLink
           /\ SlotAt(ret.link).link_pointer.node = SlotAt(ret.link).node_pointer
           /\ SlotAt(SlotAt(ret.link).link_pointer).some
           /\ SlotAt(SlotAt(ret.link).link_pointer).tag = reverse(call.tag)
           /\ SlotAt(SlotAt(ret.link).link_pointer).version = versions[call.from].primary
           /\ SlotAt(SlotAt(ret.link).link_pointer).link_pointer = ret.link

\* A call of add with reverse = false never returns: whenever the harness is between
\* calls, the call before was made with reverse = true.
FalseCallNeverReturns == (Idle /\ call.from # None) => call.rev

\* C17: get(node, tag, v) returns the target of a slot of node with the tag whose
\* version is the largest among those with the tag and a version <= v, and returns
\* None exactly when node has no slot with the tag and a version <= v.
C17_GetReturnsLatestFit ==
    \A n \in 1..Len(tnodes) : \A t \in Tags : \A v \in 1..Len(versions) :
        \E r \in {link_get(Heap, tnodes, n, t, versions[v].primary)} :
        \E fit \in {fitting(Heap, tnodes[n].link_container, t, versions[v].primary)} :
            /\ r = None <=> fit = {}
            /\ fit # {} =>
                   \E i \in fit :
                       /\ tnodes[n].link_container[i].node_pointer = r
                       /\ \A j \in fit :
                              cmp(Heap, tnodes[n].link_container[j].version,
                                  tnodes[n].link_container[i].version) # "Greater"

\* A node has two slots with the same tag, different versions and different
\* targets: get returns the target of the later slot at its version, the target of
\* the earlier one at a version in between, and another tag reads None.
C17_Witness ==
    \E n \in 1..Len(tnodes) : \E i, j \in 1..CAPACITY : \E u, v \in 1..Len(versions) :
        \E t \in Tags :
            /\ Idle
            /\ tnodes[n].link_container[i].some
            /\ tnodes[n].link_container[j].some
            /\ tnodes[n].link_container[i].tag = tnodes[n].link_container[j].tag
            /\ tnodes[n].link_container[i].node_pointer
                   # tnodes[n].link_container[j].node_pointer
            /\ tnodes[n].link_container[j].version = versions[v].primary
            /\ cmp(Heap, tnodes[n].link_container[i].version, versions[u].primary) = "Less"
            /\ cmp(Heap, versions[u].primary, versions[v].primary) = "Less"
            /\ link_get(Heap, tnodes, n, tnodes[n].link_container[i].tag,
                        versions[v].primary) = tnodes[n].link_container[j].node_pointer
            /\ link_get(Heap, tnodes, n, tnodes[n].link_container[i].tag,
                        versions[u].primary) = tnodes[n].link_container[i].node_pointer
            /\ link_get(Heap, tnodes, n, t, versions[v].primary) = None

\* copy_and_prepare has returned in the call on top of the stack (line 106 is done,
\* the call of line 107 is next).
Prepared ==
    /\ stack # <<>>
    /\ ~aborted
    /\ stack[Len(stack)].pc = "move"
    /\ stack[Len(stack)].to_move = <<>>

\* C18: when copy_and_prepare(node, v) has returned, node.copy is the new node and
\* get(copy, t, v) = get(node, t, v) for every tag t: every slot of the full node
\* that is the latest for its tag has been carried over to the copy.
C18_CopyCarriesLatestSlots ==
    Prepared =>
        \E f \in {stack[Len(stack)]} :
            /\ tnodes[f.self].copy = f.copy
            /\ \A t \in Tags :
                   link_get(Heap, tnodes, f.copy, t, f.version)
                       = link_get(Heap, tnodes, f.self, t, f.version)

\* The copy copy_and_prepare returns has no occupied slot: its first loop runs over
\* the container of the copy just made, so nothing is ever carried over.
PreparedCopyIsEmpty ==
    Prepared =>
        \A i \in 1..CAPACITY : ~tnodes[stack[Len(stack)].copy].link_container[i].some

\* Version a is v or an ancestor of v in the version tree.
RECURSIVE AncestorOrSelf(_, _)
AncestorOrSelf(a, v) ==
    IF v = None THEN FALSE ELSE a = v \/ AncestorOrSelf(a, history[v].parent)

\* C8: every insert call on the root returns, and between calls contains(x, v) is
\* true exactly when x is the root's key or x was inserted at v or at an ancestor
\* version of v.
C8_ContainsIffInserted ==
    /\ ~aborted
    /\ Idle =>
           \A x \in TreeKeys : \A v \in 1..Len(versions) :
               contains(Heap, tnodes, 1, x, versions[v].primary)
                   <=> \/ x = tnodes[1].value
                       \/ \E i \in tghost : i.key = x /\ AncestorOrSelf(i.version, v)

\* C9: every add call returns, and between calls every occupied slot s of every
\* node has a twin: the slot s.link_pointer designates is occupied, lies in the node
\* s.node_pointer designates, carries the tag reverse(s.tag), and points back at s.
C9_TwinSymmetry ==
    /\ ~aborted
    /\ Idle =>
           \A n \in 1..Len(tnodes) : \A i \in 1..CAPACITY :
               LET s == tnodes[n].link_container[i]
               IN  s.some =>
                       /\ s.link_pointer # DanglingLink
                       /\ SlotAt(s.link_pointer).some
                       /\ s.link_pointer.node = s.node_pointer
                       /\ SlotAt(s.link_pointer).tag = reverse(s.tag)
                       /\ SlotAt(s.link_pointer).link_pointer = [node |-> n, slot |-> i]

(***************************************************************************)
(* The harness of the Vec: every call is a push_after or a pop_after on    *)
(* the initial Version or on a Version returned earlier.  The build has    *)
(* overflow checks (the dev profile) or not (the release profile).         *)
(***************************************************************************)
VecCalls == 4
MaxVecValue == 2

VecValues == 1..MaxVecValue

InitVec ==
    /\ nodes = VersionNew.heap.nodes
    /\ supers = VersionNew.heap.supers
    /\ vlist = VersionNew.heap.vlist
    /\ passes = 0
    /\ overflow_checks \in BOOLEAN
    /\ aborted = FALSE
    /\ order = <<>>
    /\ returned = <<>>
    /\ call = [from |-> None, ret |-> None]
    /\ remaining = VecCalls
    /\ versions = <<VersionNew.version>>
    /\ history = <<[parent |-> None, op |-> "new", net |-> 0, contents |-> <<>>]>>
    /\ cells = <<>>
    /\ boxes = <<>>
    /\ snapshot = <<>>
    /\ vec = [len |-> PersistentCellNew, len_boxes |-> <<>>]
    /\ NoLists
    /\ tnodes = <<>>
    /\ stack = <<>>
    /\ ret = [node |-> None, link |-> DanglingLink]
    /\ tghost = {}

VecState ==
    [heap |-> Heap, cells |-> cells, boxes |-> boxes, len |-> vec.len,
     len_boxes |-> vec.len_boxes, panic |-> FALSE]

\* The call on versions[v] has run to r: the state is stored and, unless it
\* panicked, the Version it returned is recorded with its net number of pushes.
VecReturn(v, r, op, net, contents) ==
    /\ nodes' = r.state.heap.nodes
    /\ supers' = r.state.heap.supers
    /\ vlist' = r.state.heap.vlist
    /\ passes' = r.state.heap.passes
    /\ cells' = r.state.cells
    /\ boxes' = r.state.boxes
    /\ vec' = [len |-> r.state.len, len_boxes |-> r.state.len_boxes]
    /\ aborted' = r.state.panic
    /\ IF r.state.panic
       THEN /\ call' = [from |-> v, ret |-> None]
            /\ UNCHANGED <<versions, history>>
       ELSE /\ call' = [from |-> v, ret |-> Len(versions) + 1]
            /\ versions' = Append(versions, r.version)
            /\ history' = Append(history, [parent |-> v, op |-> op, net |-> net,
                                            contents |-> contents])
    /\ remaining' = remaining - 1
    /\ UNCHANGED <<overflow_checks, order, returned, snapshot, listVars, tnodes, stack,
                   ret, tghost>>

\* versions.push(vec.push_after(Box::new(x), versions[v])).
VecPush(v, x) ==
    /\ ~aborted
    /\ remaining > 0
    /\ \E r \in {push_after(VecState, x, versions[v], overflow_checks)} :
           VecReturn(v, r, "push", history[v].net + 1, Append(history[v].contents, x))

\* versions.push(vec.pop_after(versions[v])).
VecPop(v) ==
    /\ ~aborted
    /\ remaining > 0
    /\ \E r \in {pop_after(VecState, versions[v], overflow_checks)} :
           VecReturn(v, r, "pop", history[v].net - 1,
                     IF history[v].contents = <<>> THEN <<>>
                     ELSE SubSeq(history[v].contents, 1, Len(history[v].contents) - 1))

VecPushAny == \E v \in 1..Len(versions) : \E x \in VecValues : VecPush(v, x)

VecPopAny == \E v \in 1..Len(versions) : VecPop(v)

SpecVec == InitVec /\ [][VecPushAny \/ VecPopAny]_vars

\* C10: for every Version v returned by push_after / pop_after calls starting from
\* an initial Version with length 0, len(v) is the number of push_after calls minus
\* the number of pop_after calls on the chain of calls leading to v.
C10_LenIsPushesMinusPops ==
    \A v \in 1..Len(versions) :
        /\ history[v].net >= 0
        /\ Vec_len(VecState, versions[v]) = U64FromSmall(history[v].net)

\* No pop_after has been called at a Version of length 0.
RECURSIVE NeverBelowZero(_)
NeverBelowZero(v) ==
    v = None \/ (history[v].net >= 0 /\ NeverBelowZero(history[v].parent))

\* On the chains that never pop at length 0 the length is the net number of pushes.
LenIsNetWhilePositive ==
    \A v \in 1..Len(versions) :
        NeverBelowZero(v) => Vec_len(VecState, versions[v]) = U64FromSmall(history[v].net)

\* view(versions[v])[i] succeeds and is the value of the latest push_after that
\* wrote slot i on the chain of calls leading to versions[v].
IndexIsLatestPush(v, i) ==
    With(VecView_index(VecState, versions[v], i), LAMBDA r :
        /\ r.ok
        /\ i < Len(history[v].contents)
        /\ r.value = history[v].contents[i + 1])

\* C11: for every Version v returned by push_after / pop_after calls and every
\* i < len(v), view(v)[i] succeeds and equals the value given to the latest
\* push_after that wrote slot i on the chain of calls leading to v.
C11_IndexReadsLatestPush ==
    \A v \in 1..Len(versions) : \A i \in 0..VecCalls :
        U64Lt(U64FromSmall(i), Vec_len(VecState, versions[v])) => IndexIsLatestPush(v, i)

\* On the chains that never pop at length 0 every index below the length reads the
\* latest push of its slot.
IndexIsLatestPushWhilePositive ==
    \A v \in 1..Len(versions) : \A i \in 0..VecCalls :
        (NeverBelowZero(v) /\ U64Lt(U64FromSmall(i), Vec_len(VecState, versions[v])))
            => IndexIsLatestPush(v, i)

\* ordering_values of the versions of a sequence, computed once per state.
KeysOf(seq) == <<>> \o [i \in 1..Len(seq) |-> ordering_values(Heap, seq[i])]

\* C1: comparison agrees with list position: for any two versions a, b of the list,
\* a < b and b > a exactly when a precedes b in the canonical sequence (every new
\* version placed directly after the version it was inserted after), and a == a.
C1_OrderAgreesWithPosition ==
    LET k == KeysOf(order)
    IN  \A i \in 1..Len(order) :
            /\ TupleCmp(k[i], k[i]) = "Equal"
            /\ \A j \in (i + 1)..Len(order) :
                    /\ TupleCmp(k[i], k[j]) = "Less"
                    /\ TupleCmp(k[j], k[i]) = "Greater"

\* A renumber pass has run over an arc of the ring that contains the base (the base
\* label is no longer 0), after 65 super-node splits, and the insert returned.
C1_Witness ==
    /\ passes > 0
    /\ supers[vlist.base].value # U64Zero
    /\ Len(supers) > SPLIT_SIZE
    /\ call.ret # None

\* order[i] < order[j] as PartialVersion::cmp reports it, on precomputed keys.
KeyLess(x, y) == TupleCmp(x, y) = "Less"

C15_LastInsertedIsGreatest ==
    LET k == KeysOf(returned)
    IN  \A i \in 1..Len(returned) : \A j \in (i + 1)..Len(returned) :
            TupleCmp(k[i], k[j]) = "Less"

\* C15, amended: the versions produced by insert_after on the same fixed version v
\* compare, pair by pair, in the reverse of the order of their insertion: a version
\* inserted later is smaller, the last-inserted one is the least of them, and all
\* of them are greater than v.
C15_LastInsertedIsLeast ==
    LET k == KeysOf(returned)
        v == ordering_values(Heap, order[1])
    IN  \A i \in 1..Len(returned) :
            /\ TupleCmp(v, k[i]) = "Less"
            /\ \A j \in (i + 1)..Len(returned) :
                    /\ TupleCmp(k[j], k[i]) = "Less"
                    /\ TupleCmp(k[i], k[j]) = "Greater"

\* A call on the fixed version has returned after the renumber pass, and its result
\* is smaller than the first version ever returned, which lies 65 super-nodes away.
C15_Witness ==
    /\ passes > 0
    /\ Len(supers) > SPLIT_SIZE
    /\ call.ret = returned[Len(returned)]
    /\ nodes[returned[1]].parent # nodes[call.ret].parent
    /\ TupleCmp(ordering_values(Heap, call.ret), ordering_values(Heap, returned[1])) = "Less"

\* The sum of the size fields of the super-nodes 1..k.
RECURSIVE SumSizes(_)
SumSizes(k) == IF k = 0 THEN 0 ELSE supers[k].size + SumSizes(k - 1)

\* The last call brought its super-node to 64 nodes.
CallFilled == call.ret # None /\ Len(call.chain) + 1 = SPLIT_SIZE

\* C19: between insert_after calls every super-node's size is the number of nodes
\* on its inner chain and at most 64; a call that brings a super-node to 64 nodes
\* leaves it and a new super-node, its successor, with 32 nodes each (any other call
\* adds one to the size); the sizes add up to the number of versions of the list.
C19_SizeCountsInnerChain ==
    /\ \A sn \in 1..Len(supers) :
           /\ supers[sn].size = Len(Chain(sn))
           /\ supers[sn].size <= SPLIT_SIZE
    /\ SumSizes(Len(supers)) = Len(nodes)
    /\ vlist.size = Len(nodes)
    /\ call.ret # None =>
           IF CallFilled
           THEN /\ supers[call.parent].size = HALF_SIZE
                /\ supers[call.parent].next = Len(supers)
                /\ supers[Len(supers)].size = HALF_SIZE
           ELSE supers[call.parent].size = Len(call.chain) + 1

\* The last call split a super-node that was not the first to be split, the version
\* it returned staying in the first half.
C19_Witness ==
    /\ CallFilled
    /\ Len(supers) > 2
    /\ nodes[call.ret].parent = call.parent
    /\ supers[call.parent].size = HALF_SIZE
    /\ supers[Len(supers)].size = HALF_SIZE

\* The super-nodes on the ring, from super-node sn on.
RECURSIVE RingFrom(_, _)
RingFrom(sn, seen) ==
    IF sn \in seen THEN seen ELSE RingFrom(supers[sn].next, seen \cup {sn})

\* The chain the last call worked on, with the returned version in its place.
CallChainSeq ==
    With(CHOOSE k \in 1..Len(call.chain) : call.chain[k] = call.from, LAMBDA k :
        SubSeq(call.chain, 1, k) \o <<call.ret>> \o SubSeq(call.chain, k + 1, Len(call.chain)))

\* C20: between insert_after calls every version node's parent is the super-node on
\* whose inner chain the node lies, and that super-node is on the ring of the list;
\* after a split the first 32 nodes of the old chain (the new node included) are the
\* chain of the original super-node and the last 32 are the chain of the new
\* super-node and have it as their parent, its chain head being the 33rd node.
C20_ParentOwnsChain ==
    /\ \A n \in 1..Len(nodes) :
           /\ \E k \in 1..Len(Chain(nodes[n].parent)) : Chain(nodes[n].parent)[k] = n
           /\ nodes[n].parent \in RingFrom(vlist.base, {})
    /\ CallFilled =>
           /\ Chain(call.parent) = SubSeq(CallChainSeq, 1, HALF_SIZE)
           /\ Chain(Len(supers)) = SubSeq(CallChainSeq, HALF_SIZE + 1, SPLIT_SIZE)
           /\ supers[Len(supers)].list = CallChainSeq[HALF_SIZE + 1]
           /\ \A k \in 1..HALF_SIZE : nodes[CallChainSeq[k]].parent = call.parent
           /\ \A k \in (HALF_SIZE + 1)..SPLIT_SIZE :
                  nodes[CallChainSeq[k]].parent = Len(supers)

\* The last call split a super-node, and the version it was made on and the version
\* it returned both went to the new super-node with the second half.
C20_Witness ==
    /\ CallFilled
    /\ nodes[call.ret].parent = Len(supers)
    /\ nodes[call.from].parent = Len(supers)
    /\ Len(Chain(Len(supers))) = HALF_SIZE

\* No insert_after overflows or panics, so both build profiles behave alike.
NoVersionPanic == ~aborted

(***************************************************************************)
(* The insertion patterns within one group: the first call is made on a    *)
(* version at either end of the list, every later call on the version the  *)
(* last call was made on ("same") or on the version it returned ("chase"), *)
(* the run changing between the two at most MaxTurns times.  A run starts  *)
(* from a fresh list or from one a split has just relabelled.              *)
(***************************************************************************)
GroupInserts == 66
MaxTurns == 1

InitGroup ==
    \/ InitFrom([mode |-> "head", n |-> 0, inserts |-> GroupInserts])
    \/ \E m \in {"head", "tail"} :
           InitFrom([mode |-> m, n |-> BeforeSplit + 1, inserts |-> GroupInserts])

\* The position of version n in the canonical order.
PositionOf(n) == CHOOSE i \in 1..Len(order) : order[i] = n

\* version_list[i].insert_after() as a call of the pattern.
GroupInsert(i, chase, turns) ==
    /\ ~aborted
    /\ remaining > 0
    /\ \E r \in {insert_after(Heap, order[i], overflow_checks)} :
        /\ nodes' = r.nodes
        /\ supers' = r.supers
        /\ vlist' = r.vlist
        /\ passes' = r.passes
        /\ aborted' = r.panic
        /\ remaining' = remaining - 1
        /\ IF r.panic
           THEN /\ call' = [from |-> order[i], ret |-> None, chase |-> chase,
                            turns |-> turns]
                /\ UNCHANGED <<order, returned>>
           ELSE /\ call' = [from |-> order[i], ret |-> Len(r.nodes), chase |-> chase,
                            turns |-> turns]
                /\ order' = SubSeq(order, 1, i) \o <<Len(r.nodes)>>
                              \o SubSeq(order, i + 1, Len(order))
                /\ returned' = Append(returned, Len(r.nodes))
    /\ UNCHANGED <<overflow_checks, cellVars, listVars, linkVars>>

\* The first call of a run.
GroupFirst ==
    /\ call.from = None
    /\ \E i \in Positions(Len(order)) : \E chase \in BOOLEAN : GroupInsert(i, chase, 0)

\* The next call of a run: it goes on as before, or changes from "same" to
\* "chase" or back.
GroupNext ==
    /\ call.from # None
    /\ call.ret # None
    /\ \/ GroupInsert(PositionOf(IF call.chase THEN call.ret ELSE call.from),
                      call.chase, call.turns)
       \/ /\ call.turns < MaxTurns
          /\ GroupInsert(PositionOf(IF call.chase THEN call.from ELSE call.ret),
                         ~call.chase, call.turns + 1)

SpecGroup == InitGroup /\ [][GroupFirst \/ GroupNext]_vars

\* The last call returned without splitting its group.
CallInGroup ==
    /\ call.from # None
    /\ call.ret # None
    /\ nodes[call.from].next = call.ret
    /\ supers[nodes[call.ret].parent].size > HALF_SIZE \/ Len(supers) = 1

\* C21: within every super-node the node labels are strictly increasing along the
\* next chain, in every state; no insert_after overflows; and the label a call gives
\* its new node in a group it does not split is the midpoint of its neighbours'
\* labels, rounded up (u64::MAX standing for the successor at the tail): it is
\* greater than the label of the predecessor, smaller than that of the successor
\* node if there is one, and as far from the predecessor as from the successor or
\* one farther.
C21_LabelsIncreaseInGroup ==
    /\ ~aborted
    /\ \A n \in 1..Len(nodes) :
           nodes[n].next # None => U64Lt(nodes[n].value, nodes[nodes[n].next].value)
    /\ CallInGroup =>
           With(nodes[call.from].value, LAMBDA prev :
           With(nodes[call.ret].value, LAMBDA value :
           With(IF nodes[call.ret].next = None THEN U64Max
                ELSE nodes[nodes[call.ret].next].value, LAMBDA next :
               /\ U64Lt(prev, value)
               /\ nodes[call.ret].next # None => U64Lt(value, next)
               /\ ~U64Lt(next, value)
               /\ WrappingSub(value, prev) \in
                      {WrappingSub(next, value),
                       WrappingAdd(WrappingSub(next, value), U64One)})))

\* A group relabelled by a split has been filled to 63 nodes by calls on one and
\* the same version, the last call halving a gap of 4.
C21_Witness ==
    /\ CallInGroup
    /\ Len(supers) = 2
    /\ supers[nodes[call.ret].parent].size = SPLIT_SIZE - 1
    /\ WrappingSub(nodes[call.ret].value, nodes[call.from].value) = <<2, 0, 0, 0>>

\* The label split_super computes for the new super-node the last call made, from
\* the labels of before the call: current + ceil(((next - 1) - current) / 2).
SplitLabel ==
    With(call.labels[call.parent], LAMBDA current :
        WrappingAdd(current,
            DivCeil2(WrappingSub(
                WrappingSub(call.labels[supers[Len(supers)].next], U64One), current))))

\* C22: between insert_after calls the ring through the super-nodes starts and ends
\* at the base and holds every super-node, the labels are pairwise distinct, and
\* the labels less the base label (modulo 2^64) are strictly increasing along the
\* ring from the base on; a call that splits a super-node puts the new super-node
\* directly after it, strictly between it and its successor in ring order, and
\* unless the label current + ceil(((next - 1) - current) / 2) equals the label of
\* the super-node split, that is the new label and no other label changes.
C22_RingLabelsIncrease ==
    /\ RingFrom(vlist.base, {}) = 1..Len(supers)
    /\ \A s \in 1..Len(supers) : \A t \in 1..Len(supers) :
           s # t => supers[s].value # supers[t].value
    /\ With(supers[vlist.base].value, LAMBDA base :
           \A s \in 1..Len(supers) :
               supers[s].next # vlist.base =>
                   U64Lt(WrappingSub(supers[s].value, base),
                         WrappingSub(supers[supers[s].next].value, base)))
    /\ CallFilled =>
           With(Len(supers), LAMBDA new :
               /\ supers[call.parent].next = new
               /\ supers[new].value # supers[call.parent].value
               /\ supers[new].next # call.parent =>
                      U64Lt(WrappingSub(supers[new].value, supers[call.parent].value),
                            WrappingSub(supers[supers[new].next].value,
                                        supers[call.parent].value))
               /\ SplitLabel # call.labels[call.parent] =>
                      /\ supers[new].value = SplitLabel
                      /\ \A s \in 1..(new - 1) : supers[s].value = call.labels[s])

\* The last call split the last super-node of the ring and the split ran a renumber
\* pass that went through the base: the base has a new label.
C22_Witness ==
    /\ CallFilled
    /\ SplitLabel = call.labels[call.parent]
    /\ call.parent # vlist.base
    /\ supers[vlist.base].value # call.labels[vlist.base]
    /\ supers[supers[Len(supers)].next].value # U64Zero

\* The k-th successor of super-node sn on the ring.
RECURSIVE Successor(_, _)
Successor(sn, k) == IF k = 0 THEN sn ELSE Successor(supers[sn].next, k - 1)

\* The wrapped distance, when the renumber pass of the last call started, from the
\* label of the super-node split to that of its k-th successor (the new super-node
\* carrying the label of the super-node split).
Distance(k) ==
    With(Successor(call.parent, k), LAMBDA walked :
        WrappingSub(call.labels[IF walked = Len(supers) THEN call.parent ELSE walked],
                    call.labels[call.parent]))

\* The super-node split and its j - 1 successors carry the labels
\* start + i * floor(Distance(j) / j), every other super-node the label it had.
Redistributed(j) ==
    With(DivSmall(Distance(j), j), LAMBDA interval :
        \A i \in 0..(Len(supers) - 1) :
            With(Successor(call.parent, i), LAMBDA walked :
                supers[walked].value =
                    IF i < j
                    THEN WrappingAdd(call.labels[call.parent], MulSmall(interval, i))
                    ELSE call.labels[IF walked = Len(supers) THEN call.parent
                                     ELSE walked]))

\* C23 as stated: when the split of the last call gave the new super-node the label
\* of the super-node split, the labels have been redistributed over the arc walked
\* while the distance is >= j * j.
C23_WalksWhileDistanceAtLeastSquare ==
    (CallFilled /\ SplitLabel = call.labels[call.parent]) =>
        \E j \in 1..(Len(supers) - 1) :
            /\ \A k \in 1..(j - 1) : ~U64Lt(Distance(k), U64FromSmall(k * k))
            /\ U64Lt(Distance(j), U64FromSmall(j * j))
            /\ Redistributed(j)

\* C23, amended: when the split of the last call gave the new super-node the label
\* of the super-node split, a renumber pass has run from that super-node: with j the
\* least count of steps along the ring at which the wrapped label distance from the
\* starting super-node is at least j * j (the walk goes on while the distance is
\* below j * j), the starting super-node and its j - 1 successors carry the labels
\* start + i * floor(distance / j), i = 0..j-1, the starting label and every label
\* outside the arc being unchanged; a split that gave a different label changed no
\* label.
C23_WalksWhileDistanceBelowSquare ==
    /\ (CallFilled /\ SplitLabel = call.labels[call.parent]) =>
           \E j \in 1..(Len(supers) - 1) :
               /\ \A k \in 1..(j - 1) : U64Lt(Distance(k), U64FromSmall(k * k))
               /\ ~U64Lt(Distance(j), U64FromSmall(j * j))
               /\ Redistributed(j)
               /\ supers[call.parent].value = call.labels[call.parent]
    /\ (CallFilled /\ SplitLabel # call.labels[call.parent]) =>
           \A s \in 1..(Len(supers) - 1) : supers[s].value = call.labels[s]

\* The last call ran a renumber pass from the base over an arc of more than two
\* super-nodes, and the successor of the new super-node has a new label.
C23_Witness ==
    /\ CallFilled
    /\ SplitLabel = call.labels[call.parent]
    /\ call.parent = vlist.base
    /\ U64Lt(Distance(2), U64FromSmall(4))
    /\ supers[Successor(call.parent, 2)].value # call.labels[Successor(call.parent, 2)]

\* The Versions that Version v descends from: the one insert_after was called on to
\* make it, and so on up to the first.
RECURSIVE Ancestors(_)
Ancestors(v) ==
    IF history[v].parent = None THEN {}
    ELSE {history[v].parent} \cup Ancestors(history[v].parent)

\* PartialVersion n lies strictly between the primary and the secondary of Version v.
Inside(n, v) ==
    /\ cmp(Heap, versions[v].primary, n) = "Less"
    /\ cmp(Heap, n, versions[v].secondary) = "Less"

\* C24 as stated: in every Version, at all times, no PartialVersion of the list lies
\* strictly between its primary and its secondary.
C24_SecondaryFollowsPrimary ==
    \A v \in 1..Len(versions) :
        /\ cmp(Heap, versions[v].primary, versions[v].secondary) = "Less"
        /\ \A n \in 1..Len(nodes) : ~Inside(n, v)

\* C24, amended: in every Version the primary is smaller than the secondary, and the
\* PartialVersions strictly between them are exactly the primaries and secondaries
\* of the Versions that descend from it; the secondary immediately follows the
\* primary as long as insert_after has not been called on the Version, as in the
\* Version the last call returned.
C24_OnlyDescendantsBetween ==
    /\ \A v \in 1..Len(versions) :
           /\ cmp(Heap, versions[v].primary, versions[v].secondary) = "Less"
           /\ \A w \in 1..Len(versions) :
                  /\ Inside(versions[w].primary, v) <=> v \in Ancestors(w)
                  /\ Inside(versions[w].secondary, v) <=> v \in Ancestors(w)
    /\ \A n \in 1..Len(nodes) :
           \E w \in 1..Len(versions) : n \in {versions[w].primary, versions[w].secondary}
    /\ call.ret # None => \A n \in 1..Len(nodes) : ~Inside(n, call.ret)

\* The first Version has a child made by the last call and a grandchild, and a split
\* has put its primary and its secondary into different super-nodes.
C24_Witness ==
    /\ call.ret # None
    /\ history[call.ret].parent = 1
    /\ \E w \in 1..Len(versions) : 1 \in Ancestors(w) /\ history[w].parent # 1
    /\ nodes[versions[1].primary].parent # nodes[versions[1].secondary].parent

\* C25: every write set_ptr made in the last insert, of pointer ptr at a version
\* to a slot of a node, went as follows.  When the slot carried an overlay written
\* at an earlier version and read another pointer at the version, the node was
\* copied: its copy pointer is a node made at the version whose slots hold ptr and,
\* in the other slot, the node's pointer as seen at the version, and the slot itself
\* is untouched.  Otherwise no node was made and the slot reads ptr at the version
\* from its own storage: it is untouched when it read ptr already, ptr is in
\* `original` when the version is the slot's original version and there is no
\* overlay, and in `new` at the version else.  No assertion failed, and the slot
\* reads at every earlier version what it read before.
C25_WriteCopiesOnThirdValue ==
    \A i \in 1..Len(lghost.writes) :
        With(lghost.writes[i], LAMBDA e :
            /\ ~e.panic
            /\ IF /\ e.slot.new_version # None
                  /\ e.slot.new_version < e.version
                  /\ pointer_get(e.slot, e.version) # e.ptr
               THEN /\ e.made # <<>>
                    /\ e.copy = e.ret
                    /\ e.after = e.slot
                    /\ e.made[1].copy = None
                    /\ \A w \in {"next", "prev"} :
                           e.made[1][w] =
                               [pointer_new(e.version) EXCEPT
                                    !.original = IF w = e.which THEN e.ptr ELSE e.seen[w]]
               ELSE /\ e.made = <<>>
                    /\ e.ret \in {None, e.node}
                    /\ e.after =
                           IF pointer_get(e.slot, e.version) = e.ptr THEN e.slot
                           ELSE IF /\ e.slot.new_version = None
                                   /\ e.slot.original_version = e.version
                           THEN [e.slot EXCEPT !.original = e.ptr]
                           ELSE [e.slot EXCEPT !.new_version = e.version, !.new = e.ptr]
            /\ \A u \in e.slot.original_version..(e.version - 1) :
                   pointer_get(e.after, u) = pointer_get(e.slot, u))

\* C27: no insert on any list returned so far, along a chain or branching from an
\* older list, fails an assertion of the list (the process panics only where the
\* model cuts a cascade off), and no get on any of the lists does.
C27_NoAssertionFails ==
    /\ aborted => lghost.diverged
    /\ \A k \in 1..Len(lists) : \A i \in 1..Len(Read(k)) : Read(k)[i] # Panicked

\* C26: the Version intervals are nested.  A Version made by insert_after on v,
\* directly or through a cell, has v.primary < primary < secondary < v.secondary;
\* of any two Versions the intervals [primary, secondary] are disjoint or one lies
\* strictly inside the other; w descends from v exactly when v.primary < w.primary
\* < v.secondary; and a child of v made later lies before every child of v made
\* earlier.
C26_IntervalsNested ==
    \A w \in 1..Len(versions) :
        /\ history[w].parent # None =>
               /\ Inside(versions[w].primary, history[w].parent)
               /\ Inside(versions[w].secondary, history[w].parent)
               /\ cmp(Heap, versions[w].primary, versions[w].secondary) = "Less"
        /\ \A v \in 1..Len(versions) :
               /\ v \in Ancestors(w) <=> Inside(versions[w].primary, v)
               /\ v # w =>
                      \/ cmp(Heap, versions[v].secondary, versions[w].primary) = "Less"
                      \/ cmp(Heap, versions[w].secondary, versions[v].primary) = "Less"
                      \/ Inside(versions[w].primary, v) /\ Inside(versions[w].secondary, v)
                      \/ Inside(versions[v].primary, w) /\ Inside(versions[v].secondary, w)
               /\ (v < w /\ history[v].parent = history[w].parent) =>
                      cmp(Heap, versions[w].secondary, versions[v].primary) = "Less"

\* A cell made a Version on a Version that already had a child with a child of its
\* own, both made by cells, and whose interval spans two super-nodes.
C26_Witness ==
    /\ call.ret # None
    /\ history[call.ret].cell # None
    /\ \E u \in 1..Len(versions) : \E g \in 1..Len(versions) :
           /\ u < call.ret
           /\ history[u].parent = history[call.ret].parent
           /\ history[g].parent = u
           /\ history[u].cell # None
    /\ nodes[versions[history[call.ret].parent].primary].parent
           # nodes[versions[history[call.ret].parent].secondary].parent

\* C28: a pop_after at a Version of length 0 fails at the caller and records
\* nothing: no Version a pop_after returned was made at a Version of length 0, at
\* every Version the length is at most the number of slot cells allocated, and no
\* call fails but a pop_after at length 0 on its subtraction, which only a build
\* with overflow checks has fail (so no push_after indexes past the cell array).
C28_PopAtZeroRecordsNothing ==
    /\ \A v \in 1..Len(versions) :
           /\ ~U64Lt(U64FromSmall(Len(cells)), Vec_len(VecState, versions[v]))
           /\ history[v].op = "pop" =>
                  Vec_len(VecState, versions[history[v].parent]) # U64Zero
    /\ aborted => overflow_checks

====
